---- MODULE Spec2Model ----
(***************************************************************************)
(* Model of the approval store of internal/approvals (store.go), of the    *)
(* advisory lock of internal/lock, of the run log of internal/runlog and   *)
(* of the policy evaluator of internal/policy.  Each component has its own *)
(* variables and its own specification; a specification leaves the other   *)
(* components' variables alone.                                            *)
(*                                                                         *)
(* Several callers (goroutines or processes) share one approvals.json.     *)
(* Every operation is split at the points where another caller can run:    *)
(* the call (validation, time.Now, uuid), the flock acquire, the load, the *)
(* callback with the atomic rewrite, the deferred unlock and, for Get and  *)
(* List, the expiry pass that runs on the loaded copy after the unlock.    *)
(*                                                                         *)
(* Text is a sequence of characters; a run of plain characters may be      *)
(* written as one element (<<" ", "ops">> is " ops"), and a character that *)
(* has no escape in a string here is written as its code point ("U+00A0"). *)
(* The characters outside printable ASCII that the texts here are made of  *)
(* are the control characters, the grave accent, the delete character, the *)
(* Unicode spaces and the characters from U+0080 on; every other element   *)
(* is a run of plain characters.                                           *)
(* Times are clock readings, the zero time.Time is ZeroTime, a *time.Time  *)
(* is a sequence of length at most one.  The digits behind the second of a *)
(* time come in where the time is written out.                             *)
(* uuid.NewString is modelled as a fresh value on every call.              *)
(***************************************************************************)
EXTENDS Integers, Sequences, FiniteSets, TLC

(* ---------------------------- bounds ----------------------------------- *)
MaxTime == 3
MaxCalls == 3
MaxRequests == 2
MaxTokenLen == 3
MaxLogCalls == 3
MaxLines == 2
MaxRules == 2
MaxEvals == 3

Procs == {"p1", "p2"}

(* ---------------------------- constants -------------------------------- *)
StatusPending == "pending"
StatusApproved == "approved"
StatusDenied == "denied"
StatusExpired == "expired"
StatusExecuted == "executed"

Statuses == {StatusPending, StatusApproved, StatusDenied, StatusExpired, StatusExecuted}

(* Times and durations are counted in seconds: 15 * time.Minute.           *)
DefaultTTL == 900

ZeroTime == 0

(* ---------------------------- strings ---------------------------------- *)
(* unicode.IsSpace, which strings.TrimSpace and strings.Fields go by.  A   *)
(* character that has no escape in a string here is written as its code    *)
(* point.                                                                  *)
UnicodeSpaces ==
    {"U+000B", "U+0085", "U+00A0", "U+1680", "U+2000", "U+2001", "U+2002",
     "U+2003", "U+2004", "U+2005", "U+2006", "U+2007", "U+2008", "U+2009",
     "U+200A", "U+2028", "U+2029", "U+202F", "U+205F", "U+3000"}

IsSpace(c) == c \in {" ", "\t", "\n", "\f", "\r"} \cup UnicodeSpaces

(* The characters below the space in the order of their codes, the delete  *)
(* character (code 127) and the grave accent (code 96).                    *)
ControlCodes ==
    <<"U+0000", "U+0001", "U+0002", "U+0003", "U+0004", "U+0005", "U+0006",
    "U+0007", "U+0008", "\t", "\n", "U+000B", "\f", "\r", "U+000E", "U+000F",
    "U+0010", "U+0011", "U+0012", "U+0013", "U+0014", "U+0015", "U+0016",
    "U+0017", "U+0018", "U+0019", "U+001A", "U+001B", "U+001C", "U+001D",
    "U+001E", "U+001F">>

Delete == "U+007F"
GraveAccent == "U+0060"

RECURSIVE TrimLeft(_)
TrimLeft(s) ==
    IF s # <<>> /\ IsSpace(Head(s)) THEN TrimLeft(Tail(s)) ELSE s

RECURSIVE TrimRight(_)
TrimRight(s) ==
    IF s # <<>> /\ IsSpace(s[Len(s)]) THEN TrimRight(SubSeq(s, 1, Len(s) - 1)) ELSE s

TrimSpace(s) == TrimRight(TrimLeft(s))

(* Variant of defaultValue that never falls back.                         *)
defaultValue_NoFallback(value, fallback) == TrimSpace(value)

defaultValue(value, fallback) ==
    LET v == TrimSpace(value) IN IF v = <<>> THEN fallback ELSE v

HashCommand(command) == <<"sha256">> \o TrimSpace(command)

DigitChars == <<"0", "1", "2", "3", "4", "5", "6", "7", "8", "9">>

(* The first 10 hexadecimal digits of a new UUID: the n-th one drawn.      *)
shortID(n) == <<"000000000", DigitChars[n + 1]>>

ptrTime(t) == <<t>>

(* time.Time.After and time.Time.IsZero *)
After(t, u) == t > u

IsZero(t) == t = ZeroTime

(* ---------------------------- JSON document ---------------------------- *)
Field(j, k, zero) == IF k \in DOMAIN j THEN j[k] ELSE zero

(* encoding/json on Request: fields tagged omitempty are left out when     *)
(* they hold the zero value.                                               *)
OmitEmpty(k, v) ==
    CASE k \in {"run_id", "repo", "reason", "decided_by", "decision_rationale", "decision_at"} -> v = <<>>
      [] k = "policy_decision" -> v = ""
      [] OTHER -> FALSE

MarshalRequest(r) ==
    LET full == [id |-> r.ID, run_id |-> r.RunID, command |-> r.Command,
                 command_hash |-> r.CommandHash, class |-> r.Class,
                 requested_by |-> r.RequestedBy, repo |-> r.Repo,
                 status |-> r.Status, policy_decision |-> r.PolicyDecision,
                 reason |-> r.Reason, created_at |-> r.CreatedAt,
                 expires_at |-> r.ExpiresAt, decision_at |-> r.DecisionAt,
                 decided_by |-> r.DecidedBy,
                 decision_rationale |-> r.DecisionRationale]
    IN [k \in {x \in DOMAIN full : ~OmitEmpty(x, full[x])} |-> full[k]]

(* Variant of UnmarshalRequest that looks for the run id under another key. *)
UnmarshalRequest_WrongKey(j) ==
    [ID |-> Field(j, "id", <<>>), RunID |-> Field(j, "runId", <<>>),
     Command |-> Field(j, "command", <<>>),
     CommandHash |-> Field(j, "command_hash", <<>>),
     Class |-> Field(j, "class", ""),
     RequestedBy |-> Field(j, "requested_by", <<>>),
     Repo |-> Field(j, "repo", <<>>),
     Status |-> Field(j, "status", ""),
     PolicyDecision |-> Field(j, "policy_decision", ""),
     Reason |-> Field(j, "reason", <<>>),
     CreatedAt |-> Field(j, "created_at", ZeroTime),
     ExpiresAt |-> Field(j, "expires_at", ZeroTime),
     DecisionAt |-> Field(j, "decision_at", <<>>),
     DecidedBy |-> Field(j, "decided_by", <<>>),
     DecisionRationale |-> Field(j, "decision_rationale", <<>>)]

UnmarshalRequest(j) ==
    [ID |-> Field(j, "id", <<>>), RunID |-> Field(j, "run_id", <<>>),
     Command |-> Field(j, "command", <<>>),
     CommandHash |-> Field(j, "command_hash", <<>>),
     Class |-> Field(j, "class", ""),
     RequestedBy |-> Field(j, "requested_by", <<>>),
     Repo |-> Field(j, "repo", <<>>),
     Status |-> Field(j, "status", ""),
     PolicyDecision |-> Field(j, "policy_decision", ""),
     Reason |-> Field(j, "reason", <<>>),
     CreatedAt |-> Field(j, "created_at", ZeroTime),
     ExpiresAt |-> Field(j, "expires_at", ZeroTime),
     DecisionAt |-> Field(j, "decision_at", <<>>),
     DecidedBy |-> Field(j, "decided_by", <<>>),
     DecisionRationale |-> Field(j, "decision_rationale", <<>>)]

(* The zero storeFile, and the state of the path before the first write.   *)
storeFile == [Version |-> 0, Requests |-> <<>>]

NoFile == [exists |-> FALSE, version |-> 0, requests |-> <<>>]

(* util.AtomicWriteJSONWithPerm(s.path, sf, 0600): the bytes that replace  *)
(* the document.                                                           *)
MarshalStore(sf) ==
    [exists |-> TRUE, version |-> sf.Version,
     requests |-> [i \in 1..Len(sf.Requests) |-> MarshalRequest(sf.Requests[i])]]

(* The first bytes of a document, cut short: not a JSON value.             *)
Truncated(f) == [exists |-> TRUE, version |-> f.version, requests |-> f.requests,
                 cut |-> TRUE]

ValidJSON(f) == "cut" \notin DOMAIN f

(* Variant of loadFails that takes whatever it can read of the file.       *)
loadFails_Lenient(f) == FALSE

(* loadUnlocked returns an error: the file is there and json.Unmarshal     *)
(* fails on it.                                                            *)
loadFails(f) == f.exists /\ ~ValidJSON(f)

(* The storeFile loadUnlocked returns when it returns no error.            *)
loadUnlocked(f) ==
    IF ~f.exists
    THEN [Version |-> 1, Requests |-> <<>>]
    ELSE [Version |-> IF f.version = 0 THEN 1 ELSE f.version,
          Requests |-> [i \in 1..Len(f.requests) |-> UnmarshalRequest(f.requests[i])]]

(* ---------------------------- store logic ------------------------------ *)
(* Variant of expireLocked that expires a request at its expiry time.     *)
expireLocked_AtOrBefore(sf, now) ==
    [sf EXCEPT !.Requests =
        [i \in 1..Len(sf.Requests) |->
            LET req == sf.Requests[i] IN
            IF req.Status = StatusPending /\ ~IsZero(req.ExpiresAt) /\ ~After(req.ExpiresAt, now)
            THEN [req EXCEPT !.Status = StatusExpired]
            ELSE req]]

expireLocked(sf, now) ==
    [sf EXCEPT !.Requests =
        [i \in 1..Len(sf.Requests) |->
            LET req == sf.Requests[i] IN
            IF req.Status = StatusPending /\ ~IsZero(req.ExpiresAt) /\ After(now, req.ExpiresAt)
            THEN [req EXCEPT !.Status = StatusExpired]
            ELSE req]]

(* Index of the first request with the given ID, 0 when there is none      *)
(* (the range loops of Get, Decide and MarkExecuted).                      *)
FindRequest(reqs, id) ==
    IF \E i \in 1..Len(reqs) : reqs[i].ID = id
    THEN CHOOSE i \in 1..Len(reqs) :
            /\ reqs[i].ID = id
            /\ \A k \in 1..(i - 1) : reqs[k].ID # id
    ELSE 0

NoRequest == UnmarshalRequest(<<>>)

Ok(v) == [err |-> "none", val |-> v]
Fail(e) == [err |-> e, val |-> NoRequest]
NoResult == Fail("pending_call")

(* ---------------------------- inputs ----------------------------------- *)
(* The fields of CreateInput that Create only copies or trims.             *)
CreateMeta ==
    {[RunID |-> <<"run-1", " ">>, Class |-> "class2_sensitive",
      RequestedBy |-> <<" ", "dashboard">>, Repo |-> <<>>,
      PolicyDecision |-> "require_approval", Reason |-> <<>>],
     [RunID |-> <<>>, Class |-> "class1_controlled_write",
      RequestedBy |-> <<"\r", "\n">>, Repo |-> <<"rig", "\n">>,
      PolicyDecision |-> "", Reason |-> <<" ", "why">>]}

MakeCreateInputs(metas, commands, ttls) ==
    {[RunID |-> m.RunID, Command |-> c, Class |-> m.Class,
      RequestedBy |-> m.RequestedBy, Repo |-> m.Repo,
      PolicyDecision |-> m.PolicyDecision, Reason |-> m.Reason, TTL |-> t] :
        m \in metas, c \in commands, t \in ttls}

DecideMeta ==
    {[Approver |-> <<"\n">>, Rationale |-> <<"change window open", " ">>],
     [Approver |-> <<" ", "ops">>, Rationale |-> <<>>]}

MakeDecideInputs(ids, decisions, metas) ==
    {[ID |-> id, Decision |-> d, Approver |-> m.Approver, Rationale |-> m.Rationale] :
        id \in ids, d \in decisions, m \in metas}

RequestID(n) == <<"apr-">> \o shortID(n)

(* The status filters of List; the empty filter lists everything.          *)
Filters == {""} \cup Statuses

(* ---------------------------- state ------------------------------------ *)
VARIABLES
    file,       \* daemon/approvals.json
    tmpfile,    \* the temporary file a writer that crashed left behind
    holders,    \* callers holding the flock on approvals.json.lock
    clock,      \* the wall clock read by time.Now
    nextId,     \* number of uuids drawn so far, plus one
    nCreated,   \* number of Create calls that returned without error
    nCalls,     \* number of calls made so far
    lastCreated, \* the request the latest Create returned, while only Get calls followed it
    pc,         \* where each caller is in its operation
    call,       \* the operation a caller runs, with its arguments
    now,        \* the caller's local now
    req,        \* the *Request built by Create
    sf,         \* the *storeFile a caller loaded
    res         \* what the caller's operation returned

approvalVars == <<file, tmpfile, holders, clock, nextId, nCreated, nCalls, lastCreated, pc, call, now, req, sf, res>>

VARIABLES
    goos,       \* the platform the package internal/lock was built for
    lkpc,       \* where each acquirer is in flockAcquire
    lkpath,     \* the lock path an acquirer passed to flockAcquire
    flocked     \* the flock(2) table: the (acquirer, path) pairs holding LOCK_EX

lockVars == <<goos, lkpc, lkpath, flocked>>

VARIABLES
    redactIn,   \* the argument of a RedactString call
    redactOut   \* what the call returned

redactVars == <<redactIn, redactOut>>

VARIABLES
    rlfile,     \* daemon/command-events.jsonl
    rlholders,  \* callers holding the flock on command-events.jsonl.lock
    rlnextId,   \* number of uuids drawn for event ids so far, plus one
    rlnCalls,   \* number of run log calls made so far
    rlnWritten, \* number of Append calls that wrote their line
    rlpc,       \* where each caller is in its run log operation
    rlcall,     \* the run log operation a caller runs, with its arguments
    rlevt,      \* the event as Append changed it before locking
    rlres       \* what the caller's run log operation returned

runlogVars == <<rlfile, rlholders, rlnextId, rlnCalls, rlnWritten, rlpc, rlcall, rlevt, rlres>>

VARIABLES
    classIn,      \* the (command, args) of a ClassifyCommand call
    classOut,     \* what the call returned
    polpc,        \* "new": no Evaluator yet; "ready": built; "done": Evaluate returned
    evalFrom,     \* the constructor call that built the Evaluator
    evaluator,    \* the Evaluator: its document pointer
    evalReq,      \* the EvalRequest of the latest Evaluate call
    evalRes,      \* the EvalResult it returned
    evalLog       \* the Evaluate calls made on the Evaluator: request, time, result

policyVars == <<classIn, classOut, polpc, evalFrom, evaluator, evalReq, evalRes, evalLog>>

(* The approval store's variables other than the wall clock, which is      *)
(* everybody's.                                                            *)
approvalVarsNoClock == <<file, tmpfile, holders, nextId, nCreated, nCalls, lastCreated, pc, call, now, req, sf, res>>

VARIABLES
    hpc,        \* where the HTTP handler is: idle, in Create or Decide, in Append
    hresp,      \* the status code of the response, 0 while there is none
    hcrashed,   \* the server process died inside a handler
    hruns       \* the run ids the handlers have drawn

webVars == <<hpc, hresp, hcrashed, hruns>>

vars == <<approvalVars, lockVars, redactVars, runlogVars, policyVars, webVars>>

NoCall == [op |-> "none"]

(* The acquirers and lock paths of internal/lock.                          *)
LockProcs == {"p1", "p2", "p3"}
LockPaths == {"a.lock", "b.lock"}
NoPath == ""

LockIdle ==
    /\ lkpc = [p \in LockProcs |-> "idle"]
    /\ lkpath = [p \in LockProcs |-> NoPath]
    /\ flocked = {}

InitStore(f) ==
    /\ file = f
    /\ tmpfile = NoFile
    /\ holders = {}
    /\ clock = 1
    /\ nextId = 1
    /\ nCreated = 0
    /\ nCalls = 0
    /\ lastCreated = NoRequest
    /\ pc = [p \in Procs |-> "idle"]
    /\ call = [p \in Procs |-> NoCall]
    /\ now = [p \in Procs |-> ZeroTime]
    /\ req = [p \in Procs |-> NoRequest]
    /\ sf = [p \in Procs |-> storeFile]
    /\ res = [p \in Procs |-> NoResult]

(* No approvals.json yet.                                                  *)
InitApprovals == InitStore(NoFile)

(* RedactString has not been called.                                      *)
NotRedacted == <<"not called">>

RedactIdle ==
    /\ redactIn = <<>>
    /\ redactOut = NotRedacted

(* A nil map or pointer is the empty sequence, a non-nil one a sequence of *)
(* length one.                                                             *)
Nil == <<>>

(* The zero Event.                                                         *)
NoEvent ==
    [EventID |-> <<>>, RunID |-> <<>>, TenantID |-> <<>>, AgentID |-> <<>>,
     State |-> <<>>, PolicyDecision |-> <<>>, Attempt |-> 0, EventType |-> <<>>,
     Payload |-> Nil, Timestamp |-> ZeroTime]

NoLogFile == [exists |-> FALSE, lines |-> <<>>]

RlOk(events) == [err |-> "none", events |-> events]
RlFail(e) == [err |-> e, events |-> <<>>]
RlNoResult == RlFail("pending_call")

RunlogIdle ==
    /\ rlfile = NoLogFile
    /\ rlholders = {}
    /\ rlnextId = 1
    /\ rlnCalls = 0
    /\ rlnWritten = 0
    /\ rlpc = [p \in Procs |-> "idle"]
    /\ rlcall = [p \in Procs |-> NoCall]
    /\ rlevt = [p \in Procs |-> NoEvent]
    /\ rlres = [p \in Procs |-> RlNoResult]

(* No ClassifyCommand call and no Evaluator yet.                           *)
NoCommand == [command |-> <<>>, args |-> <<>>]
NotClassified == [class |-> "", reason |-> ""]
NoEvalRequest ==
    [Agent |-> <<>>, Repo |-> <<>>, Command |-> <<>>, Args |-> <<>>,
     RequestedBy |-> <<>>, Timestamp |-> ZeroTime]
NoEvalResult == [Decision |-> "", Class |-> "", Reason |-> "", RuleID |-> ""]

NotBuilt == [call |-> "none", doc |-> Nil, file |-> "none"]

PolicyIdle ==
    /\ classIn = NoCommand
    /\ classOut = NotClassified
    /\ polpc = "new"
    /\ evalFrom = NotBuilt
    /\ evaluator = [doc |-> Nil]
    /\ evalReq = NoEvalRequest
    /\ evalRes = NoEvalResult
    /\ evalLog = {}

(* No request has reached the HTTP handlers.                               *)
WebIdle ==
    /\ hpc = "idle"
    /\ hresp = 0
    /\ hcrashed = FALSE
    /\ hruns = 0

Init ==
    /\ InitApprovals
    /\ goos = "linux"
    /\ LockIdle
    /\ RedactIdle
    /\ RunlogIdle
    /\ PolicyIdle
    /\ WebIdle

(* Ids a caller can ask for: the ids that Create has returned, and one     *)
(* that never is.                                                          *)
KnownIDs ==
    {RequestID(0)} \cup {file.requests[i].id : i \in 1..Len(file.requests)}

(* time.Now().UTC(): a reading t that is not before the latest reading.    *)
(* The clock is only seen where it is read, so it moves there.             *)
TimeNow(t) ==
    /\ t \in clock..MaxTime
    /\ clock' = t

(* A caller that is not inside an operation starts one.  Idle callers are  *)
(* interchangeable, so of two idle callers the first one starts.           *)
Begin(p, c) ==
    /\ pc[p] = "idle"
    /\ p = "p2" => pc["p1"] # "idle"
    /\ nCalls < MaxCalls
    /\ nCalls' = nCalls + 1
    /\ call' = [call EXCEPT ![p] = c]
    /\ lastCreated' = IF c.op = "Get" THEN lastCreated ELSE NoRequest

(* ---------------------------- Create ----------------------------------- *)
(* Variant of NewRequest without the default TTL.                          *)
NewRequest_NoDefault(input, n, t) ==
    [ID |-> RequestID(n),
     RunID |-> TrimSpace(input.RunID),
     Command |-> TrimSpace(input.Command),
     CommandHash |-> HashCommand(input.Command),
     Class |-> input.Class,
     RequestedBy |-> defaultValue(input.RequestedBy, <<"system">>),
     Repo |-> TrimSpace(input.Repo),
     Status |-> StatusPending,
     PolicyDecision |-> input.PolicyDecision,
     Reason |-> TrimSpace(input.Reason),
     CreatedAt |-> t,
     ExpiresAt |-> t + input.TTL,
     DecisionAt |-> <<>>,
     DecidedBy |-> <<>>,
     DecisionRationale |-> <<>>]

NewRequest(input, n, t) ==
    LET ttl == IF input.TTL <= 0 THEN DefaultTTL ELSE input.TTL IN
    [ID |-> RequestID(n),
     RunID |-> TrimSpace(input.RunID),
     Command |-> TrimSpace(input.Command),
     CommandHash |-> HashCommand(input.Command),
     Class |-> input.Class,
     RequestedBy |-> defaultValue(input.RequestedBy, <<"system">>),
     Repo |-> TrimSpace(input.Repo),
     Status |-> StatusPending,
     PolicyDecision |-> input.PolicyDecision,
     Reason |-> TrimSpace(input.Reason),
     CreatedAt |-> t,
     ExpiresAt |-> t + ttl,
     DecisionAt |-> <<>>,
     DecidedBy |-> <<>>,
     DecisionRationale |-> <<>>]

(* Variant of CommandIsEmpty that does not trim.                          *)
CommandIsEmpty_NoTrim(input) == input.Command = <<>>

(* The validation at the head of Create.                                   *)
CommandIsEmpty(input) == TrimSpace(input.Command) = <<>>

(* Create up to the call of withLockedStore.                               *)
Create(p, input, t) ==
    /\ Begin(p, [op |-> "Create", input |-> input])
    /\ IF CommandIsEmpty(input)
       THEN /\ res' = [res EXCEPT ![p] = Fail("validation")]
            /\ pc' = [pc EXCEPT ![p] = "done"]
            /\ UNCHANGED <<now, req, nextId, clock>>
       ELSE /\ nextId <= MaxRequests
            /\ TimeNow(t)
            /\ now' = [now EXCEPT ![p] = t]
            /\ req' = [req EXCEPT ![p] = NewRequest(input, nextId, t)]
            /\ nextId' = nextId + 1
            /\ pc' = [pc EXCEPT ![p] = "lock"]
            /\ UNCHANGED res
    /\ UNCHANGED <<file, tmpfile, holders, nCreated, sf>>

(* ---------------------------- the lock --------------------------------- *)
(* flock.Lock returns once no other descriptor holds the lock.             *)
(* Variant of LockAvailable for a lock that excludes nobody.               *)
LockAvailable_NoExclusion(h) == TRUE

LockAvailable(h) == h = {}

IsReader(c) == c.op \in {"Get", "List"}

(* Variant of Lock that does not wait for the lock to be free.             *)
Lock_NoWait(p) ==
    /\ pc[p] = "lock"
    /\ holders' = holders \cup {p}
    /\ IF loadFails(file)
       THEN /\ res' = [res EXCEPT ![p] = Fail("storage")]
            /\ pc' = [pc EXCEPT ![p] = "unlock"]
            /\ UNCHANGED sf
       ELSE /\ sf' = [sf EXCEPT ![p] = loadUnlocked(file)]
            /\ pc' = [pc EXCEPT ![p] = IF IsReader(call[p]) THEN "unlock" ELSE "fn"]
            /\ UNCHANGED res
    /\ UNCHANGED <<file, tmpfile, clock, nextId, nCreated, nCalls, lastCreated, call, now, req>>

(* withLockedStore and readLockedStore up to the callback: take the lock,  *)
(* then load the document.  Nothing another caller does can fall between   *)
(* the two, so they are one step.  When the load fails the callback is not *)
(* run and the error is what the operation returns, after the unlock.      *)
Lock(p) ==
    /\ pc[p] = "lock"
    /\ LockAvailable(holders)
    /\ holders' = holders \cup {p}
    /\ IF loadFails(file)
       THEN /\ res' = [res EXCEPT ![p] = Fail("storage")]
            /\ pc' = [pc EXCEPT ![p] = "unlock"]
            /\ UNCHANGED sf
       ELSE /\ sf' = [sf EXCEPT ![p] = loadUnlocked(file)]
            /\ pc' = [pc EXCEPT ![p] = IF IsReader(call[p]) THEN "unlock" ELSE "fn"]
            /\ UNCHANGED res
    /\ UNCHANGED <<file, tmpfile, clock, nextId, nCreated, nCalls, lastCreated, call, now, req>>

(* Variant of Unlock in which the operation returns with the lock held.    *)
Unlock_KeepsLock(p) ==
    /\ pc[p] = "unlock"
    /\ pc' = [pc EXCEPT ![p] = IF IsReader(call[p]) /\ res[p].err # "storage"
                                THEN "read" ELSE "done"]
    /\ UNCHANGED <<file, tmpfile, holders, clock, nextId, nCreated, nCalls, lastCreated, call, now, req, sf, res>>

(* The deferred lock.Unlock, after which the operation returns (writers)   *)
(* or goes on with the copy it loaded (readers).                           *)
Unlock(p) ==
    /\ pc[p] = "unlock"
    /\ holders' = holders \ {p}
    /\ pc' = [pc EXCEPT ![p] = IF IsReader(call[p]) /\ res[p].err # "storage"
                                THEN "read" ELSE "done"]
    /\ UNCHANGED <<file, tmpfile, clock, nextId, nCreated, nCalls, lastCreated, call, now, req, sf, res>>

(* The callback of Create and the rewrite of the document.                 *)
CreateFn(p) ==
    /\ pc[p] = "fn"
    /\ call[p].op = "Create"
    /\ LET exp == expireLocked(sf[p], now[p])
           out == [exp EXCEPT !.Requests = Append(exp.Requests, req[p])]
       IN /\ sf' = [sf EXCEPT ![p] = out]
          /\ file' = MarshalStore(out)
    /\ res' = [res EXCEPT ![p] = Ok(req[p])]
    /\ nCreated' = nCreated + 1
    /\ lastCreated' = req[p]
    /\ pc' = [pc EXCEPT ![p] = "unlock"]
    /\ UNCHANGED <<tmpfile, holders, clock, nextId, nCalls, call, now, req>>

(* ---------------------------- Decide ----------------------------------- *)
(* Decide up to the call of withLockedStore.                               *)
Decide(p, input, t) ==
    /\ Begin(p, [op |-> "Decide", input |-> input])
    /\ IF input.Decision # StatusApproved /\ input.Decision # StatusDenied
       THEN /\ res' = [res EXCEPT ![p] = Fail("validation")]
            /\ pc' = [pc EXCEPT ![p] = "done"]
            /\ UNCHANGED <<now, clock>>
       ELSE /\ TimeNow(t)
            /\ now' = [now EXCEPT ![p] = t]
            /\ pc' = [pc EXCEPT ![p] = "lock"]
            /\ UNCHANGED res
    /\ UNCHANGED <<file, tmpfile, holders, nextId, nCreated, req, sf>>

(* Variant of DecideApply that decides a request whatever its status.     *)
DecideApply_NoStatusCheck(store, input, t) ==
    LET exp == expireLocked(store, t)
        i == FindRequest(exp.Requests, input.ID)
    IN IF i = 0
       THEN [sf |-> exp, res |-> Fail("not_found")]
       ELSE LET r == [exp.Requests[i] EXCEPT
                        !.Status = input.Decision,
                        !.DecidedBy = defaultValue(input.Approver, <<"operator">>),
                        !.DecisionRationale = TrimSpace(input.Rationale),
                        !.DecisionAt = ptrTime(t)]
            IN [sf |-> [exp EXCEPT !.Requests[i] = r], res |-> Ok(r)]

(* What the callback of Decide makes of the loaded store: the store it     *)
(* leaves in memory and the result.                                        *)
DecideApply(store, input, t) ==
    LET exp == expireLocked(store, t)
        i == FindRequest(exp.Requests, input.ID)
    IN IF i = 0
       THEN [sf |-> exp, res |-> Fail("not_found")]
       ELSE IF exp.Requests[i].Status # StatusPending
       THEN [sf |-> exp, res |-> Fail("conflict")]
       ELSE LET r == [exp.Requests[i] EXCEPT
                        !.Status = input.Decision,
                        !.DecidedBy = defaultValue(input.Approver, <<"operator">>),
                        !.DecisionRationale = TrimSpace(input.Rationale),
                        !.DecisionAt = ptrTime(t)]
            IN [sf |-> [exp EXCEPT !.Requests[i] = r], res |-> Ok(r)]

(* Variant of DecideFn that rewrites the document also after an error.    *)
DecideFn_WriteOnError(p) ==
    /\ pc[p] = "fn"
    /\ call[p].op = "Decide"
    /\ LET out == DecideApply(sf[p], call[p].input, now[p])
       IN /\ sf' = [sf EXCEPT ![p] = out.sf]
          /\ res' = [res EXCEPT ![p] = out.res]
          /\ file' = MarshalStore(out.sf)
    /\ pc' = [pc EXCEPT ![p] = "unlock"]
    /\ UNCHANGED <<tmpfile, holders, clock, nextId, nCreated, nCalls, lastCreated, call, now, req>>

(* withLockedStore after the load: run the callback, and rewrite the       *)
(* document only when the callback returned no error.                      *)
DecideFn(p) ==
    /\ pc[p] = "fn"
    /\ call[p].op = "Decide"
    /\ LET out == DecideApply(sf[p], call[p].input, now[p])
       IN /\ sf' = [sf EXCEPT ![p] = out.sf]
          /\ res' = [res EXCEPT ![p] = out.res]
          /\ file' = IF out.res.err = "none" THEN MarshalStore(out.sf) ELSE file
    /\ pc' = [pc EXCEPT ![p] = "unlock"]
    /\ UNCHANGED <<tmpfile, holders, clock, nextId, nCreated, nCalls, lastCreated, call, now, req>>

(* ---------------------------- MarkExecuted ----------------------------- *)
MarkExecuted(p, id, runID, t) ==
    /\ Begin(p, [op |-> "MarkExecuted", id |-> id, runID |-> runID])
    /\ TimeNow(t)
    /\ now' = [now EXCEPT ![p] = t]
    /\ pc' = [pc EXCEPT ![p] = "lock"]
    /\ UNCHANGED <<file, tmpfile, holders, nextId, nCreated, req, sf, res>>

(* Variant of MarkExecutedApply that records who executed, and when, in    *)
(* the decision fields.                                                    *)
MarkExecutedApply_StampsDecision(store, id, runID, t) ==
    LET exp == expireLocked(store, t)
        i == FindRequest(exp.Requests, id)
    IN IF i = 0
       THEN [sf |-> exp, res |-> Fail("not_found")]
       ELSE IF exp.Requests[i].Status # StatusApproved /\ exp.Requests[i].Status # StatusPending
       THEN [sf |-> exp, res |-> Fail("conflict")]
       ELSE LET r == [exp.Requests[i] EXCEPT
                        !.Status = StatusExecuted,
                        !.DecidedBy = <<"executor">>,
                        !.DecisionAt = ptrTime(t),
                        !.RunID = IF TrimSpace(runID) # <<>> THEN runID ELSE @]
            IN [sf |-> [exp EXCEPT !.Requests[i] = r], res |-> Ok(r)]

(* Variant of MarkExecutedApply that executes a request in any status.    *)
MarkExecutedApply_AnyStatus(store, id, runID, t) ==
    LET exp == expireLocked(store, t)
        i == FindRequest(exp.Requests, id)
    IN IF i = 0
       THEN [sf |-> exp, res |-> Fail("not_found")]
       ELSE LET r == [exp.Requests[i] EXCEPT
                        !.Status = StatusExecuted,
                        !.RunID = IF TrimSpace(runID) # <<>> THEN runID ELSE @]
            IN [sf |-> [exp EXCEPT !.Requests[i] = r], res |-> Ok(r)]

(* Variant of MarkExecutedApply that executes approved requests only.     *)
MarkExecutedApply_ApprovedOnly(store, id, runID, t) ==
    LET exp == expireLocked(store, t)
        i == FindRequest(exp.Requests, id)
    IN IF i = 0
       THEN [sf |-> exp, res |-> Fail("not_found")]
       ELSE IF exp.Requests[i].Status # StatusApproved
       THEN [sf |-> exp, res |-> Fail("conflict")]
       ELSE LET r == [exp.Requests[i] EXCEPT
                        !.Status = StatusExecuted,
                        !.RunID = IF TrimSpace(runID) # <<>> THEN runID ELSE @]
            IN [sf |-> [exp EXCEPT !.Requests[i] = r], res |-> Ok(r)]

MarkExecutedApply(store, id, runID, t) ==
    LET exp == expireLocked(store, t)
        i == FindRequest(exp.Requests, id)
    IN IF i = 0
       THEN [sf |-> exp, res |-> Fail("not_found")]
       ELSE IF exp.Requests[i].Status # StatusApproved /\ exp.Requests[i].Status # StatusPending
       THEN [sf |-> exp, res |-> Fail("conflict")]
       ELSE LET r == [exp.Requests[i] EXCEPT
                        !.Status = StatusExecuted,
                        !.RunID = IF TrimSpace(runID) # <<>> THEN runID ELSE @]
            IN [sf |-> [exp EXCEPT !.Requests[i] = r], res |-> Ok(r)]

MarkExecutedFn(p) ==
    /\ pc[p] = "fn"
    /\ call[p].op = "MarkExecuted"
    /\ LET out == MarkExecutedApply(sf[p], call[p].id, call[p].runID, now[p])
       IN /\ sf' = [sf EXCEPT ![p] = out.sf]
          /\ res' = [res EXCEPT ![p] = out.res]
          /\ file' = IF out.res.err = "none" THEN MarshalStore(out.sf) ELSE file
    /\ pc' = [pc EXCEPT ![p] = "unlock"]
    /\ UNCHANGED <<tmpfile, holders, clock, nextId, nCreated, nCalls, lastCreated, call, now, req>>

(* ---------------------------- Get -------------------------------------- *)
Get(p, id) ==
    /\ Begin(p, [op |-> "Get", id |-> id])
    /\ pc' = [pc EXCEPT ![p] = "lock"]
    /\ UNCHANGED <<file, tmpfile, holders, clock, nextId, nCreated, now, req, sf, res>>

GetResult(store, id, t) ==
    LET exp == expireLocked(store, t)
        i == FindRequest(exp.Requests, id)
    IN IF i = 0 THEN Fail("not_found") ELSE Ok(exp.Requests[i])

(* Variant of GetRead that writes the document back after the expiry pass. *)
GetRead_PersistsExpiry(p, t) ==
    /\ pc[p] = "read"
    /\ call[p].op = "Get"
    /\ TimeNow(t)
    /\ now' = [now EXCEPT ![p] = t]
    /\ res' = [res EXCEPT ![p] = GetResult(sf[p], call[p].id, t)]
    /\ file' = IF file.exists THEN MarshalStore(expireLocked(sf[p], t)) ELSE file
    /\ pc' = [pc EXCEPT ![p] = "done"]
    /\ UNCHANGED <<tmpfile, holders, nextId, nCreated, nCalls, lastCreated, call, req, sf>>

(* Get after readLockedStore returned: time.Now, the expiry pass on the    *)
(* loaded copy, the lookup.  sf keeps the copy as it was loaded.           *)
GetRead(p, t) ==
    /\ pc[p] = "read"
    /\ call[p].op = "Get"
    /\ TimeNow(t)
    /\ now' = [now EXCEPT ![p] = t]
    /\ res' = [res EXCEPT ![p] = GetResult(sf[p], call[p].id, t)]
    /\ pc' = [pc EXCEPT ![p] = "done"]
    /\ UNCHANGED <<file, tmpfile, holders, nextId, nCreated, nCalls, lastCreated, call, req, sf>>

(* ---------------------------- List ------------------------------------- *)
List(p, filter) ==
    /\ Begin(p, [op |-> "List", filter |-> filter])
    /\ pc' = [pc EXCEPT ![p] = "lock"]
    /\ UNCHANGED <<file, tmpfile, holders, clock, nextId, nCreated, now, req, sf, res>>

(* Variant of Less that sorts oldest first.                               *)
Less_Ascending(a, b) == After(b.CreatedAt, a.CreatedAt)

(* The less function List passes to sort.SliceStable.                      *)
Less(a, b) == After(a.CreatedAt, b.CreatedAt)

(* Insert x behind every element it is not less than.                      *)
RECURSIVE InsertStable(_, _)
InsertStable(x, s) ==
    IF s = <<>> THEN <<x>>
    ELSE IF Less(x, Head(s)) THEN <<x>> \o s
    ELSE <<Head(s)>> \o InsertStable(x, Tail(s))

(* sort.SliceStable: a stable sort by Less.                                *)
RECURSIVE SliceStable(_)
SliceStable(s) ==
    IF s = <<>> THEN <<>>
    ELSE InsertStable(s[Len(s)], SliceStable(SubSeq(s, 1, Len(s) - 1)))

RECURSIVE FilterStatus(_, _)
FilterStatus(s, filter) ==
    IF s = <<>> THEN <<>>
    ELSE IF filter # "" /\ Head(s).Status # filter
    THEN FilterStatus(Tail(s), filter)
    ELSE <<Head(s)>> \o FilterStatus(Tail(s), filter)

ListResult(store, filter, t) ==
    SliceStable(FilterStatus(expireLocked(store, t).Requests, filter))

ListRead(p, t) ==
    /\ pc[p] = "read"
    /\ call[p].op = "List"
    /\ TimeNow(t)
    /\ now' = [now EXCEPT ![p] = t]
    /\ res' = [res EXCEPT ![p] = Ok(ListResult(sf[p], call[p].filter, t))]
    /\ pc' = [pc EXCEPT ![p] = "done"]
    /\ UNCHANGED <<file, tmpfile, holders, nextId, nCreated, nCalls, lastCreated, call, req, sf>>

(* The caller drops the result and is ready for its next call.             *)
Return(p) ==
    /\ pc[p] = "done"
    /\ pc' = [pc EXCEPT ![p] = "idle"]
    /\ call' = [call EXCEPT ![p] = NoCall]
    /\ now' = [now EXCEPT ![p] = ZeroTime]
    /\ req' = [req EXCEPT ![p] = NoRequest]
    /\ sf' = [sf EXCEPT ![p] = storeFile]
    /\ res' = [res EXCEPT ![p] = NoResult]
    /\ UNCHANGED <<file, tmpfile, holders, clock, nextId, nCreated, nCalls, lastCreated>>

(* The clock readings.                                                     *)
Times == 1..MaxTime

(* The steps inside an operation, the same for every specification.        *)
Step(p) ==
    \/ Lock(p)
    \/ CreateFn(p)
    \/ DecideFn(p)
    \/ MarkExecutedFn(p)
    \/ Unlock(p)
    \/ \E t \in Times : GetRead(p, t)
    \/ \E t \in Times : ListRead(p, t)
    \/ Return(p)

(* ---------------------------- concurrent callers ----------------------- *)
ConcCreateInputs ==
    MakeCreateInputs({m \in CreateMeta : m.RunID # <<>>},
                     {<<" ", "git push", " ">>}, {1})

ConcDecideInputs(ids) ==
    MakeDecideInputs(ids, {StatusApproved, StatusDenied},
                     {m \in DecideMeta : m.Rationale = <<>>})

ConcFilters == {"", StatusPending, StatusApproved}

(* The variables of the other components.                                  *)
otherVars == <<lockVars, redactVars, runlogVars, policyVars, webVars>>

Next ==
    \/ \E p \in Procs, input \in ConcCreateInputs, t \in Times :
            Create(p, input, t) /\ UNCHANGED otherVars
    \/ \E p \in Procs, input \in ConcDecideInputs(KnownIDs), t \in Times :
            Decide(p, input, t) /\ UNCHANGED otherVars
    \/ \E p \in Procs, id \in KnownIDs, t \in Times :
            MarkExecuted(p, id, <<"run-2">>, t) /\ UNCHANGED otherVars
    \/ \E p \in Procs, id \in KnownIDs : Get(p, id) /\ UNCHANGED otherVars
    \/ \E p \in Procs, filter \in ConcFilters : List(p, filter) /\ UNCHANGED otherVars
    \/ \E p \in Procs : Step(p) /\ UNCHANGED otherVars

Spec == Init /\ [][Next]_vars

(* ---------------------------- one caller, all inputs ------------------- *)
Commands == {<<>>, <<"\n", " ">>, <<" ", "git push", " ">>}

TTLs == {0 - 1, 0, 1}

CreateInputs ==
    LET A == {m \in CreateMeta : m.RunID # <<>>}
        B == CreateMeta \ A
    IN MakeCreateInputs(A, Commands, {1})
       \cup MakeCreateInputs(B, {<<" ", "git push", " ">>}, TTLs \ {1})

Decisions == {StatusApproved, StatusDenied, StatusPending, ""}

DecideInputs(ids) ==
    LET A == {m \in DecideMeta : m.Rationale = <<>>}
        B == DecideMeta \ A
    IN MakeDecideInputs(ids, {StatusApproved, StatusPending}, A)
       \cup MakeDecideInputs(ids, {StatusDenied, ""}, B)

RunIDs == {<<>>, <<"\r", "\n">>, <<"run-2">>}

Caller == "p1"

NextSeq ==
    \/ \E input \in CreateInputs, t \in Times :
            Create(Caller, input, t) /\ UNCHANGED otherVars
    \/ \E input \in DecideInputs(KnownIDs), t \in Times :
            Decide(Caller, input, t) /\ UNCHANGED otherVars
    \/ \E id \in KnownIDs, runID \in RunIDs, t \in Times :
            MarkExecuted(Caller, id, runID, t) /\ UNCHANGED otherVars
    \/ \E id \in KnownIDs : Get(Caller, id) /\ UNCHANGED otherVars
    \/ \E filter \in Filters : List(Caller, filter) /\ UNCHANGED otherVars
    \/ Step(Caller) /\ UNCHANGED otherVars

SpecSeq == Init /\ [][NextSeq]_vars

(* ---------------------------- a caller that edits what it got --------- *)
(* Get and List hand out pointers to clones of the loaded requests; the    *)
(* caller writes through them.                                             *)
Edited(r) == [r EXCEPT !.Status = StatusExecuted, !.Command = <<"changed">>]

CallerEdits(p) ==
    /\ pc[p] = "done"
    /\ call[p].op \in {"Get", "List"}
    /\ res[p].err = "none"
    /\ res' = [res EXCEPT ![p].val =
                    IF call[p].op = "Get" THEN Edited(@)
                    ELSE [i \in DOMAIN @ |-> Edited(@[i])]]
    /\ res' # res
    /\ UNCHANGED <<file, tmpfile, holders, clock, nextId, nCreated, nCalls,
                   lastCreated, pc, call, now, req, sf>>

NextCopy ==
    \/ NextSeq
    \/ CallerEdits(Caller) /\ UNCHANGED otherVars

SpecCopy == Init /\ [][NextCopy]_vars

(* ---------------------------- crashes --------------------------------- *)
(* util.AtomicWriteJSONWithPerm writes the document to a temporary file    *)
(* and renames that onto the path.  A writer can die before it, with the   *)
(* temporary file half written, with it complete, or after the rename.     *)
CrashPoints == {"before", "writing", "written", "renamed"}

(* Variant of CrashedWrite for a rewrite of the document in place.         *)
CrashedWrite_InPlace(f, tmp, doc, point) ==
    CASE point = "before" -> [file |-> f, tmpfile |-> tmp]
      [] point = "writing" -> [file |-> Truncated(doc), tmpfile |-> tmp]
      [] OTHER -> [file |-> doc, tmpfile |-> tmp]

(* The document and the temporary file a writer leaves that dies at the    *)
(* given point of writing doc.                                             *)
CrashedWrite(f, tmp, doc, point) ==
    CASE point = "before" -> [file |-> f, tmpfile |-> tmp]
      [] point = "writing" -> [file |-> f, tmpfile |-> Truncated(doc)]
      [] point = "written" -> [file |-> f, tmpfile |-> doc]
      [] point = "renamed" -> [file |-> doc, tmpfile |-> tmp]

(* What the callback of p's operation makes of the store p loaded: whether *)
(* withLockedStore goes on to write, and the document it then writes.      *)
PendingWrite(p) ==
    CASE call[p].op = "Create" ->
            [ok |-> TRUE,
             doc |-> MarshalStore([expireLocked(sf[p], now[p]) EXCEPT
                                      !.Requests = Append(@, req[p])])]
      [] call[p].op = "Decide" ->
            LET out == DecideApply(sf[p], call[p].input, now[p])
            IN [ok |-> out.res.err = "none", doc |-> MarshalStore(out.sf)]
      [] call[p].op = "MarkExecuted" ->
            LET out == MarkExecutedApply(sf[p], call[p].id, call[p].runID, now[p])
            IN [ok |-> out.res.err = "none", doc |-> MarshalStore(out.sf)]

(* The process of caller p dies inside an operation: it returns nothing    *)
(* and makes no further call.  The deferred unlock does not run, so the    *)
(* flock it may hold is still there when it is dead.                       *)
Crash(p, point) ==
    /\ pc[p] \in {"lock", "fn", "unlock", "read"}
    /\ pc' = [pc EXCEPT ![p] = "crashed"]
    /\ IF pc[p] = "fn" /\ PendingWrite(p).ok
       THEN LET left == CrashedWrite(file, tmpfile, PendingWrite(p).doc, point)
            IN file' = left.file /\ tmpfile' = left.tmpfile
       ELSE point = "before" /\ UNCHANGED <<file, tmpfile>>
    /\ UNCHANGED <<holders, clock, nextId, nCreated, nCalls, lastCreated, call, now, req,
                   sf, res>>

(* The platform, or an operator, releases the flock of a dead process: the *)
(* kernel does it when the last descriptor of the lock file is closed,     *)
(* which is at the exit of the process, later, or never.                   *)
ReleaseDead(p) ==
    /\ pc[p] = "crashed"
    /\ p \in holders
    /\ holders' = holders \ {p}
    /\ UNCHANGED <<file, tmpfile, clock, nextId, nCreated, nCalls, lastCreated, pc, call,
                   now, req, sf, res>>

CrashCreateInputs ==
    MakeCreateInputs({m \in CreateMeta : m.RunID # <<>>}, {<<" ", "git push", " ">>}, {1})

CrashDecideInputs(ids) ==
    MakeDecideInputs(ids, {StatusApproved}, {m \in DecideMeta : m.Rationale = <<>>})

(* Two clock readings are enough for a request to expire or not.          *)
CrashTimes == {1, 2}

NextCrash ==
    \/ \E p \in Procs, input \in CrashCreateInputs, t \in CrashTimes :
            Create(p, input, t) /\ UNCHANGED otherVars
    \/ \E p \in Procs, input \in CrashDecideInputs(KnownIDs), t \in CrashTimes :
            Decide(p, input, t) /\ UNCHANGED otherVars
    \/ \E p \in Procs, id \in KnownIDs, t \in CrashTimes :
            MarkExecuted(p, id, <<"run-2">>, t) /\ UNCHANGED otherVars
    \/ \E p \in Procs, id \in KnownIDs : Get(p, id) /\ UNCHANGED otherVars
    \/ \E p \in Procs : Lock(p) /\ UNCHANGED otherVars
    \/ \E p \in Procs : CreateFn(p) /\ UNCHANGED otherVars
    \/ \E p \in Procs : DecideFn(p) /\ UNCHANGED otherVars
    \/ \E p \in Procs : MarkExecutedFn(p) /\ UNCHANGED otherVars
    \/ \E p \in Procs : Unlock(p) /\ UNCHANGED otherVars
    \/ \E p \in Procs, t \in CrashTimes : GetRead(p, t) /\ UNCHANGED otherVars
    \/ \E p \in Procs : Return(p) /\ UNCHANGED otherVars
    \/ \E p \in Procs, point \in CrashPoints : Crash(p, point) /\ UNCHANGED otherVars
    \/ \E p \in Procs : ReleaseDead(p) /\ UNCHANGED otherVars

SpecCrash == Init /\ [][NextCrash]_vars

(* ---------------------------- a damaged document ----------------------- *)
(* One caller on a store whose document is missing, or was cut short by a  *)
(* writer that does not follow the protocol.                               *)
DamagedDocument ==
    Truncated(MarshalStore(
        [Version |-> 1,
         Requests |-> <<NewRequest(CHOOSE input \in ConcCreateInputs : TRUE, 1, 1)>>]))

InitCorrupt ==
    /\ \E f \in {NoFile, DamagedDocument} : InitStore(f)
    /\ goos = "linux"
    /\ LockIdle
    /\ RedactIdle
    /\ RunlogIdle
    /\ PolicyIdle
    /\ WebIdle

SpecCorrupt == InitCorrupt /\ [][NextSeq]_vars

TypeOK ==
    /\ holders \subseteq Procs
    /\ clock \in 1..MaxTime
    /\ \A p \in Procs : pc[p] \in {"idle", "lock", "fn", "unlock", "read", "done"}

(* ---------------------------- advisory lock ---------------------------- *)

(* flock(fd, LOCK_EX) returns once no other open file description holds a *)
(* lock on the file; until then the caller is blocked in the system call.  *)
FlockGranted_Shared(p, path) == TRUE

FlockGranted(p, path) == \A h \in flocked : h[2] # path

(* flockAcquire up to the system call.  Built for Windows it takes no lock *)
(* and returns an empty cleanup at once; elsewhere it opens the lock file. *)
flockAcquire(p, path) ==
    /\ lkpc[p] = "idle"
    /\ lkpath' = [lkpath EXCEPT ![p] = path]
    /\ lkpc' = [lkpc EXCEPT ![p] = IF goos = "windows" THEN "held" ELSE "opened"]
    /\ UNCHANGED <<goos, flocked>>

(* syscall.Flock(fd, LOCK_EX) returns and flockAcquire hands out cleanup.  *)
Flock(p) ==
    /\ lkpc[p] = "opened"
    /\ FlockGranted(p, lkpath[p])
    /\ flocked' = flocked \cup {<<p, lkpath[p]>>}
    /\ lkpc' = [lkpc EXCEPT ![p] = "held"]
    /\ UNCHANGED <<goos, lkpath>>

(* The cleanup function: LOCK_UN and Close, or nothing on Windows.         *)
cleanup(p) ==
    /\ lkpc[p] = "held"
    /\ flocked' = flocked \ {<<p, lkpath[p]>>}
    /\ lkpc' = [lkpc EXCEPT ![p] = "idle"]
    /\ lkpath' = [lkpath EXCEPT ![p] = NoPath]
    /\ UNCHANGED goos

InitLock ==
    /\ InitApprovals
    /\ goos \in {"linux", "windows"}
    /\ LockIdle
    /\ RedactIdle
    /\ RunlogIdle
    /\ PolicyIdle
    /\ WebIdle

exceptLock == <<approvalVars, redactVars, runlogVars, policyVars, webVars>>

NextLock ==
    \/ \E p \in LockProcs, path \in LockPaths :
            flockAcquire(p, path) /\ UNCHANGED exceptLock
    \/ \E p \in LockProcs : Flock(p) /\ UNCHANGED exceptLock
    \/ \E p \in LockProcs : cleanup(p) /\ UNCHANGED exceptLock

SpecLock == InitLock /\ [][NextLock]_vars

(* ---------------------------- strings --------------------------------- *)

(* In the run log and the policy evaluator a string is the sequence of its *)
(* characters, one element each.                                           *)
LowerLetters ==
    <<"a", "b", "c", "d", "e", "f", "g", "h", "i", "j", "k", "l", "m", "n",
    "o", "p", "q", "r", "s", "t", "u", "v", "w", "x", "y", "z">>
UpperLetters ==
    <<"A", "B", "C", "D", "E", "F", "G", "H", "I", "J", "K", "L", "M", "N",
    "O", "P", "Q", "R", "S", "T", "U", "V", "W", "X", "Y", "Z">>
Digits == {"0", "1", "2", "3", "4", "5", "6", "7", "8", "9"}

Range(f) == {f[i] : i \in DOMAIN f}

Letters == Range(LowerLetters) \cup Range(UpperLetters)

(* The characters of the regexp class \w, and of the class \s.             *)
WordChars == Letters \cup Digits \cup {"_"}
Whitespace == {" ", "\t", "\n", "\f", "\r"}

(* The characters outside ASCII that unicode.ToLower changes and, at the   *)
(* same place, the letter it gives for each: the simple lower-case mapping *)
(* of the Unicode tables (Unicode 14), over all the planes.  The capital I *)
(* with a dot and the kelvin sign go to the ASCII letters i and k.         *)
UpperPoints ==
    <<"U+00C0", "U+00C1", "U+00C2", "U+00C3", "U+00C4", "U+00C5", "U+00C6",
      "U+00C7", "U+00C8", "U+00C9", "U+00CA", "U+00CB", "U+00CC", "U+00CD",
      "U+00CE", "U+00CF", "U+00D0", "U+00D1", "U+00D2", "U+00D3", "U+00D4",
      "U+00D5", "U+00D6", "U+00D8", "U+00D9", "U+00DA", "U+00DB", "U+00DC",
      "U+00DD", "U+00DE", "U+0100", "U+0102", "U+0104", "U+0106", "U+0108",
      "U+010A", "U+010C", "U+010E", "U+0110", "U+0112", "U+0114", "U+0116",
      "U+0118", "U+011A", "U+011C", "U+011E", "U+0120", "U+0122", "U+0124",
      "U+0126", "U+0128", "U+012A", "U+012C", "U+012E", "U+0130", "U+0132",
      "U+0134", "U+0136", "U+0139", "U+013B", "U+013D", "U+013F", "U+0141",
      "U+0143", "U+0145", "U+0147", "U+014A", "U+014C", "U+014E", "U+0150",
      "U+0152", "U+0154", "U+0156", "U+0158", "U+015A", "U+015C", "U+015E",
      "U+0160", "U+0162", "U+0164", "U+0166", "U+0168", "U+016A", "U+016C",
      "U+016E", "U+0170", "U+0172", "U+0174", "U+0176", "U+0178", "U+0179",
      "U+017B", "U+017D", "U+0181", "U+0182", "U+0184", "U+0186", "U+0187",
      "U+0189", "U+018A", "U+018B", "U+018E", "U+018F", "U+0190", "U+0191",
      "U+0193", "U+0194", "U+0196", "U+0197", "U+0198", "U+019C", "U+019D",
      "U+019F", "U+01A0", "U+01A2", "U+01A4", "U+01A6", "U+01A7", "U+01A9",
      "U+01AC", "U+01AE", "U+01AF", "U+01B1", "U+01B2", "U+01B3", "U+01B5",
      "U+01B7", "U+01B8", "U+01BC", "U+01C4", "U+01C5", "U+01C7", "U+01C8",
      "U+01CA", "U+01CB", "U+01CD", "U+01CF", "U+01D1", "U+01D3", "U+01D5",
      "U+01D7", "U+01D9", "U+01DB", "U+01DE", "U+01E0", "U+01E2", "U+01E4",
      "U+01E6", "U+01E8", "U+01EA", "U+01EC", "U+01EE", "U+01F1", "U+01F2",
      "U+01F4", "U+01F6", "U+01F7", "U+01F8", "U+01FA", "U+01FC", "U+01FE",
      "U+0200", "U+0202", "U+0204", "U+0206", "U+0208", "U+020A", "U+020C",
      "U+020E", "U+0210", "U+0212", "U+0214", "U+0216", "U+0218", "U+021A",
      "U+021C", "U+021E", "U+0220", "U+0222", "U+0224", "U+0226", "U+0228",
      "U+022A", "U+022C", "U+022E", "U+0230", "U+0232", "U+023A", "U+023B",
      "U+023D", "U+023E", "U+0241", "U+0243", "U+0244", "U+0245", "U+0246",
      "U+0248", "U+024A", "U+024C", "U+024E", "U+0370", "U+0372", "U+0376",
      "U+037F", "U+0386", "U+0388", "U+0389", "U+038A", "U+038C", "U+038E",
      "U+038F", "U+0391", "U+0392", "U+0393", "U+0394", "U+0395", "U+0396",
      "U+0397", "U+0398", "U+0399", "U+039A", "U+039B", "U+039C", "U+039D",
      "U+039E", "U+039F", "U+03A0", "U+03A1", "U+03A3", "U+03A4", "U+03A5",
      "U+03A6", "U+03A7", "U+03A8", "U+03A9", "U+03AA", "U+03AB", "U+03CF",
      "U+03D8", "U+03DA", "U+03DC", "U+03DE", "U+03E0", "U+03E2", "U+03E4",
      "U+03E6", "U+03E8", "U+03EA", "U+03EC", "U+03EE", "U+03F4", "U+03F7",
      "U+03F9", "U+03FA", "U+03FD", "U+03FE", "U+03FF", "U+0400", "U+0401",
      "U+0402", "U+0403", "U+0404", "U+0405", "U+0406", "U+0407", "U+0408",
      "U+0409", "U+040A", "U+040B", "U+040C", "U+040D", "U+040E", "U+040F",
      "U+0410", "U+0411", "U+0412", "U+0413", "U+0414", "U+0415", "U+0416",
      "U+0417", "U+0418", "U+0419", "U+041A", "U+041B", "U+041C", "U+041D",
      "U+041E", "U+041F", "U+0420", "U+0421", "U+0422", "U+0423", "U+0424",
      "U+0425", "U+0426", "U+0427", "U+0428", "U+0429", "U+042A", "U+042B",
      "U+042C", "U+042D", "U+042E", "U+042F", "U+0460", "U+0462", "U+0464",
      "U+0466", "U+0468", "U+046A", "U+046C", "U+046E", "U+0470", "U+0472",
      "U+0474", "U+0476", "U+0478", "U+047A", "U+047C", "U+047E", "U+0480",
      "U+048A", "U+048C", "U+048E", "U+0490", "U+0492", "U+0494", "U+0496",
      "U+0498", "U+049A", "U+049C", "U+049E", "U+04A0", "U+04A2", "U+04A4",
      "U+04A6", "U+04A8", "U+04AA", "U+04AC", "U+04AE", "U+04B0", "U+04B2",
      "U+04B4", "U+04B6", "U+04B8", "U+04BA", "U+04BC", "U+04BE", "U+04C0",
      "U+04C1", "U+04C3", "U+04C5", "U+04C7", "U+04C9", "U+04CB", "U+04CD",
      "U+04D0", "U+04D2", "U+04D4", "U+04D6", "U+04D8", "U+04DA", "U+04DC",
      "U+04DE", "U+04E0", "U+04E2", "U+04E4", "U+04E6", "U+04E8", "U+04EA",
      "U+04EC", "U+04EE", "U+04F0", "U+04F2", "U+04F4", "U+04F6", "U+04F8",
      "U+04FA", "U+04FC", "U+04FE", "U+0500", "U+0502", "U+0504", "U+0506",
      "U+0508", "U+050A", "U+050C", "U+050E", "U+0510", "U+0512", "U+0514",
      "U+0516", "U+0518", "U+051A", "U+051C", "U+051E", "U+0520", "U+0522",
      "U+0524", "U+0526", "U+0528", "U+052A", "U+052C", "U+052E", "U+0531",
      "U+0532", "U+0533", "U+0534", "U+0535", "U+0536", "U+0537", "U+0538",
      "U+0539", "U+053A", "U+053B", "U+053C", "U+053D", "U+053E", "U+053F",
      "U+0540", "U+0541", "U+0542", "U+0543", "U+0544", "U+0545", "U+0546",
      "U+0547", "U+0548", "U+0549", "U+054A", "U+054B", "U+054C", "U+054D",
      "U+054E", "U+054F", "U+0550", "U+0551", "U+0552", "U+0553", "U+0554",
      "U+0555", "U+0556", "U+10A0", "U+10A1", "U+10A2", "U+10A3", "U+10A4",
      "U+10A5", "U+10A6", "U+10A7", "U+10A8", "U+10A9", "U+10AA", "U+10AB",
      "U+10AC", "U+10AD", "U+10AE", "U+10AF", "U+10B0", "U+10B1", "U+10B2",
      "U+10B3", "U+10B4", "U+10B5", "U+10B6", "U+10B7", "U+10B8", "U+10B9",
      "U+10BA", "U+10BB", "U+10BC", "U+10BD", "U+10BE", "U+10BF", "U+10C0",
      "U+10C1", "U+10C2", "U+10C3", "U+10C4", "U+10C5", "U+10C7", "U+10CD",
      "U+13A0", "U+13A1", "U+13A2", "U+13A3", "U+13A4", "U+13A5", "U+13A6",
      "U+13A7", "U+13A8", "U+13A9", "U+13AA", "U+13AB", "U+13AC", "U+13AD",
      "U+13AE", "U+13AF", "U+13B0", "U+13B1", "U+13B2", "U+13B3", "U+13B4",
      "U+13B5", "U+13B6", "U+13B7", "U+13B8", "U+13B9", "U+13BA", "U+13BB",
      "U+13BC", "U+13BD", "U+13BE", "U+13BF", "U+13C0", "U+13C1", "U+13C2",
      "U+13C3", "U+13C4", "U+13C5", "U+13C6", "U+13C7", "U+13C8", "U+13C9",
      "U+13CA", "U+13CB", "U+13CC", "U+13CD", "U+13CE", "U+13CF", "U+13D0",
      "U+13D1", "U+13D2", "U+13D3", "U+13D4", "U+13D5", "U+13D6", "U+13D7",
      "U+13D8", "U+13D9", "U+13DA", "U+13DB", "U+13DC", "U+13DD", "U+13DE",
      "U+13DF", "U+13E0", "U+13E1", "U+13E2", "U+13E3", "U+13E4", "U+13E5",
      "U+13E6", "U+13E7", "U+13E8", "U+13E9", "U+13EA", "U+13EB", "U+13EC",
      "U+13ED", "U+13EE", "U+13EF", "U+13F0", "U+13F1", "U+13F2", "U+13F3",
      "U+13F4", "U+13F5", "U+1C90", "U+1C91", "U+1C92", "U+1C93", "U+1C94",
      "U+1C95", "U+1C96", "U+1C97", "U+1C98", "U+1C99", "U+1C9A", "U+1C9B",
      "U+1C9C", "U+1C9D", "U+1C9E", "U+1C9F", "U+1CA0", "U+1CA1", "U+1CA2",
      "U+1CA3", "U+1CA4", "U+1CA5", "U+1CA6", "U+1CA7", "U+1CA8", "U+1CA9",
      "U+1CAA", "U+1CAB", "U+1CAC", "U+1CAD", "U+1CAE", "U+1CAF", "U+1CB0",
      "U+1CB1", "U+1CB2", "U+1CB3", "U+1CB4", "U+1CB5", "U+1CB6", "U+1CB7",
      "U+1CB8", "U+1CB9", "U+1CBA", "U+1CBD", "U+1CBE", "U+1CBF", "U+1E00",
      "U+1E02", "U+1E04", "U+1E06", "U+1E08", "U+1E0A", "U+1E0C", "U+1E0E",
      "U+1E10", "U+1E12", "U+1E14", "U+1E16", "U+1E18", "U+1E1A", "U+1E1C",
      "U+1E1E", "U+1E20", "U+1E22", "U+1E24", "U+1E26", "U+1E28", "U+1E2A",
      "U+1E2C", "U+1E2E", "U+1E30", "U+1E32", "U+1E34", "U+1E36", "U+1E38",
      "U+1E3A", "U+1E3C", "U+1E3E", "U+1E40", "U+1E42", "U+1E44", "U+1E46",
      "U+1E48", "U+1E4A", "U+1E4C", "U+1E4E", "U+1E50", "U+1E52", "U+1E54",
      "U+1E56", "U+1E58", "U+1E5A", "U+1E5C", "U+1E5E", "U+1E60", "U+1E62",
      "U+1E64", "U+1E66", "U+1E68", "U+1E6A", "U+1E6C", "U+1E6E", "U+1E70",
      "U+1E72", "U+1E74", "U+1E76", "U+1E78", "U+1E7A", "U+1E7C", "U+1E7E",
      "U+1E80", "U+1E82", "U+1E84", "U+1E86", "U+1E88", "U+1E8A", "U+1E8C",
      "U+1E8E", "U+1E90", "U+1E92", "U+1E94", "U+1E9E", "U+1EA0", "U+1EA2",
      "U+1EA4", "U+1EA6", "U+1EA8", "U+1EAA", "U+1EAC", "U+1EAE", "U+1EB0",
      "U+1EB2", "U+1EB4", "U+1EB6", "U+1EB8", "U+1EBA", "U+1EBC", "U+1EBE",
      "U+1EC0", "U+1EC2", "U+1EC4", "U+1EC6", "U+1EC8", "U+1ECA", "U+1ECC",
      "U+1ECE", "U+1ED0", "U+1ED2", "U+1ED4", "U+1ED6", "U+1ED8", "U+1EDA",
      "U+1EDC", "U+1EDE", "U+1EE0", "U+1EE2", "U+1EE4", "U+1EE6", "U+1EE8",
      "U+1EEA", "U+1EEC", "U+1EEE", "U+1EF0", "U+1EF2", "U+1EF4", "U+1EF6",
      "U+1EF8", "U+1EFA", "U+1EFC", "U+1EFE", "U+1F08", "U+1F09", "U+1F0A",
      "U+1F0B", "U+1F0C", "U+1F0D", "U+1F0E", "U+1F0F", "U+1F18", "U+1F19",
      "U+1F1A", "U+1F1B", "U+1F1C", "U+1F1D", "U+1F28", "U+1F29", "U+1F2A",
      "U+1F2B", "U+1F2C", "U+1F2D", "U+1F2E", "U+1F2F", "U+1F38", "U+1F39",
      "U+1F3A", "U+1F3B", "U+1F3C", "U+1F3D", "U+1F3E", "U+1F3F", "U+1F48",
      "U+1F49", "U+1F4A", "U+1F4B", "U+1F4C", "U+1F4D", "U+1F59", "U+1F5B",
      "U+1F5D", "U+1F5F", "U+1F68", "U+1F69", "U+1F6A", "U+1F6B", "U+1F6C",
      "U+1F6D", "U+1F6E", "U+1F6F", "U+1F88", "U+1F89", "U+1F8A", "U+1F8B",
      "U+1F8C", "U+1F8D", "U+1F8E", "U+1F8F", "U+1F98", "U+1F99", "U+1F9A",
      "U+1F9B", "U+1F9C", "U+1F9D", "U+1F9E", "U+1F9F", "U+1FA8", "U+1FA9",
      "U+1FAA", "U+1FAB", "U+1FAC", "U+1FAD", "U+1FAE", "U+1FAF", "U+1FB8",
      "U+1FB9", "U+1FBA", "U+1FBB", "U+1FBC", "U+1FC8", "U+1FC9", "U+1FCA",
      "U+1FCB", "U+1FCC", "U+1FD8", "U+1FD9", "U+1FDA", "U+1FDB", "U+1FE8",
      "U+1FE9", "U+1FEA", "U+1FEB", "U+1FEC", "U+1FF8", "U+1FF9", "U+1FFA",
      "U+1FFB", "U+1FFC", "U+2126", "U+212A", "U+212B", "U+2132", "U+2160",
      "U+2161", "U+2162", "U+2163", "U+2164", "U+2165", "U+2166", "U+2167",
      "U+2168", "U+2169", "U+216A", "U+216B", "U+216C", "U+216D", "U+216E",
      "U+216F", "U+2183", "U+24B6", "U+24B7", "U+24B8", "U+24B9", "U+24BA",
      "U+24BB", "U+24BC", "U+24BD", "U+24BE", "U+24BF", "U+24C0", "U+24C1",
      "U+24C2", "U+24C3", "U+24C4", "U+24C5", "U+24C6", "U+24C7", "U+24C8",
      "U+24C9", "U+24CA", "U+24CB", "U+24CC", "U+24CD", "U+24CE", "U+24CF",
      "U+2C00", "U+2C01", "U+2C02", "U+2C03", "U+2C04", "U+2C05", "U+2C06",
      "U+2C07", "U+2C08", "U+2C09", "U+2C0A", "U+2C0B", "U+2C0C", "U+2C0D",
      "U+2C0E", "U+2C0F", "U+2C10", "U+2C11", "U+2C12", "U+2C13", "U+2C14",
      "U+2C15", "U+2C16", "U+2C17", "U+2C18", "U+2C19", "U+2C1A", "U+2C1B",
      "U+2C1C", "U+2C1D", "U+2C1E", "U+2C1F", "U+2C20", "U+2C21", "U+2C22",
      "U+2C23", "U+2C24", "U+2C25", "U+2C26", "U+2C27", "U+2C28", "U+2C29",
      "U+2C2A", "U+2C2B", "U+2C2C", "U+2C2D", "U+2C2E", "U+2C2F", "U+2C60",
      "U+2C62", "U+2C63", "U+2C64", "U+2C67", "U+2C69", "U+2C6B", "U+2C6D",
      "U+2C6E", "U+2C6F", "U+2C70", "U+2C72", "U+2C75", "U+2C7E", "U+2C7F",
      "U+2C80", "U+2C82", "U+2C84", "U+2C86", "U+2C88", "U+2C8A", "U+2C8C",
      "U+2C8E", "U+2C90", "U+2C92", "U+2C94", "U+2C96", "U+2C98", "U+2C9A",
      "U+2C9C", "U+2C9E", "U+2CA0", "U+2CA2", "U+2CA4", "U+2CA6", "U+2CA8",
      "U+2CAA", "U+2CAC", "U+2CAE", "U+2CB0", "U+2CB2", "U+2CB4", "U+2CB6",
      "U+2CB8", "U+2CBA", "U+2CBC", "U+2CBE", "U+2CC0", "U+2CC2", "U+2CC4",
      "U+2CC6", "U+2CC8", "U+2CCA", "U+2CCC", "U+2CCE", "U+2CD0", "U+2CD2",
      "U+2CD4", "U+2CD6", "U+2CD8", "U+2CDA", "U+2CDC", "U+2CDE", "U+2CE0",
      "U+2CE2", "U+2CEB", "U+2CED", "U+2CF2", "U+A640", "U+A642", "U+A644",
      "U+A646", "U+A648", "U+A64A", "U+A64C", "U+A64E", "U+A650", "U+A652",
      "U+A654", "U+A656", "U+A658", "U+A65A", "U+A65C", "U+A65E", "U+A660",
      "U+A662", "U+A664", "U+A666", "U+A668", "U+A66A", "U+A66C", "U+A680",
      "U+A682", "U+A684", "U+A686", "U+A688", "U+A68A", "U+A68C", "U+A68E",
      "U+A690", "U+A692", "U+A694", "U+A696", "U+A698", "U+A69A", "U+A722",
      "U+A724", "U+A726", "U+A728", "U+A72A", "U+A72C", "U+A72E", "U+A732",
      "U+A734", "U+A736", "U+A738", "U+A73A", "U+A73C", "U+A73E", "U+A740",
      "U+A742", "U+A744", "U+A746", "U+A748", "U+A74A", "U+A74C", "U+A74E",
      "U+A750", "U+A752", "U+A754", "U+A756", "U+A758", "U+A75A", "U+A75C",
      "U+A75E", "U+A760", "U+A762", "U+A764", "U+A766", "U+A768", "U+A76A",
      "U+A76C", "U+A76E", "U+A779", "U+A77B", "U+A77D", "U+A77E", "U+A780",
      "U+A782", "U+A784", "U+A786", "U+A78B", "U+A78D", "U+A790", "U+A792",
      "U+A796", "U+A798", "U+A79A", "U+A79C", "U+A79E", "U+A7A0", "U+A7A2",
      "U+A7A4", "U+A7A6", "U+A7A8", "U+A7AA", "U+A7AB", "U+A7AC", "U+A7AD",
      "U+A7AE", "U+A7B0", "U+A7B1", "U+A7B2", "U+A7B3", "U+A7B4", "U+A7B6",
      "U+A7B8", "U+A7BA", "U+A7BC", "U+A7BE", "U+A7C0", "U+A7C2", "U+A7C4",
      "U+A7C5", "U+A7C6", "U+A7C7", "U+A7C9", "U+A7D0", "U+A7D6", "U+A7D8",
      "U+A7F5", "U+FF21", "U+FF22", "U+FF23", "U+FF24", "U+FF25", "U+FF26",
      "U+FF27", "U+FF28", "U+FF29", "U+FF2A", "U+FF2B", "U+FF2C", "U+FF2D",
      "U+FF2E", "U+FF2F", "U+FF30", "U+FF31", "U+FF32", "U+FF33", "U+FF34",
      "U+FF35", "U+FF36", "U+FF37", "U+FF38", "U+FF39", "U+FF3A", "U+10400",
      "U+10401", "U+10402", "U+10403", "U+10404", "U+10405", "U+10406",
      "U+10407", "U+10408", "U+10409", "U+1040A", "U+1040B", "U+1040C",
      "U+1040D", "U+1040E", "U+1040F", "U+10410", "U+10411", "U+10412",
      "U+10413", "U+10414", "U+10415", "U+10416", "U+10417", "U+10418",
      "U+10419", "U+1041A", "U+1041B", "U+1041C", "U+1041D", "U+1041E",
      "U+1041F", "U+10420", "U+10421", "U+10422", "U+10423", "U+10424",
      "U+10425", "U+10426", "U+10427", "U+104B0", "U+104B1", "U+104B2",
      "U+104B3", "U+104B4", "U+104B5", "U+104B6", "U+104B7", "U+104B8",
      "U+104B9", "U+104BA", "U+104BB", "U+104BC", "U+104BD", "U+104BE",
      "U+104BF", "U+104C0", "U+104C1", "U+104C2", "U+104C3", "U+104C4",
      "U+104C5", "U+104C6", "U+104C7", "U+104C8", "U+104C9", "U+104CA",
      "U+104CB", "U+104CC", "U+104CD", "U+104CE", "U+104CF", "U+104D0",
      "U+104D1", "U+104D2", "U+104D3", "U+10570", "U+10571", "U+10572",
      "U+10573", "U+10574", "U+10575", "U+10576", "U+10577", "U+10578",
      "U+10579", "U+1057A", "U+1057C", "U+1057D", "U+1057E", "U+1057F",
      "U+10580", "U+10581", "U+10582", "U+10583", "U+10584", "U+10585",
      "U+10586", "U+10587", "U+10588", "U+10589", "U+1058A", "U+1058C",
      "U+1058D", "U+1058E", "U+1058F", "U+10590", "U+10591", "U+10592",
      "U+10594", "U+10595", "U+10C80", "U+10C81", "U+10C82", "U+10C83",
      "U+10C84", "U+10C85", "U+10C86", "U+10C87", "U+10C88", "U+10C89",
      "U+10C8A", "U+10C8B", "U+10C8C", "U+10C8D", "U+10C8E", "U+10C8F",
      "U+10C90", "U+10C91", "U+10C92", "U+10C93", "U+10C94", "U+10C95",
      "U+10C96", "U+10C97", "U+10C98", "U+10C99", "U+10C9A", "U+10C9B",
      "U+10C9C", "U+10C9D", "U+10C9E", "U+10C9F", "U+10CA0", "U+10CA1",
      "U+10CA2", "U+10CA3", "U+10CA4", "U+10CA5", "U+10CA6", "U+10CA7",
      "U+10CA8", "U+10CA9", "U+10CAA", "U+10CAB", "U+10CAC", "U+10CAD",
      "U+10CAE", "U+10CAF", "U+10CB0", "U+10CB1", "U+10CB2", "U+118A0",
      "U+118A1", "U+118A2", "U+118A3", "U+118A4", "U+118A5", "U+118A6",
      "U+118A7", "U+118A8", "U+118A9", "U+118AA", "U+118AB", "U+118AC",
      "U+118AD", "U+118AE", "U+118AF", "U+118B0", "U+118B1", "U+118B2",
      "U+118B3", "U+118B4", "U+118B5", "U+118B6", "U+118B7", "U+118B8",
      "U+118B9", "U+118BA", "U+118BB", "U+118BC", "U+118BD", "U+118BE",
      "U+118BF", "U+16E40", "U+16E41", "U+16E42", "U+16E43", "U+16E44",
      "U+16E45", "U+16E46", "U+16E47", "U+16E48", "U+16E49", "U+16E4A",
      "U+16E4B", "U+16E4C", "U+16E4D", "U+16E4E", "U+16E4F", "U+16E50",
      "U+16E51", "U+16E52", "U+16E53", "U+16E54", "U+16E55", "U+16E56",
      "U+16E57", "U+16E58", "U+16E59", "U+16E5A", "U+16E5B", "U+16E5C",
      "U+16E5D", "U+16E5E", "U+16E5F", "U+1E900", "U+1E901", "U+1E902",
      "U+1E903", "U+1E904", "U+1E905", "U+1E906", "U+1E907", "U+1E908",
      "U+1E909", "U+1E90A", "U+1E90B", "U+1E90C", "U+1E90D", "U+1E90E",
      "U+1E90F", "U+1E910", "U+1E911", "U+1E912", "U+1E913", "U+1E914",
      "U+1E915", "U+1E916", "U+1E917", "U+1E918", "U+1E919", "U+1E91A",
      "U+1E91B", "U+1E91C", "U+1E91D", "U+1E91E", "U+1E91F", "U+1E920",
      "U+1E921">>

LowerPoints ==
    <<"U+00E0", "U+00E1", "U+00E2", "U+00E3", "U+00E4", "U+00E5", "U+00E6",
      "U+00E7", "U+00E8", "U+00E9", "U+00EA", "U+00EB", "U+00EC", "U+00ED",
      "U+00EE", "U+00EF", "U+00F0", "U+00F1", "U+00F2", "U+00F3", "U+00F4",
      "U+00F5", "U+00F6", "U+00F8", "U+00F9", "U+00FA", "U+00FB", "U+00FC",
      "U+00FD", "U+00FE", "U+0101", "U+0103", "U+0105", "U+0107", "U+0109",
      "U+010B", "U+010D", "U+010F", "U+0111", "U+0113", "U+0115", "U+0117",
      "U+0119", "U+011B", "U+011D", "U+011F", "U+0121", "U+0123", "U+0125",
      "U+0127", "U+0129", "U+012B", "U+012D", "U+012F", "i", "U+0133",
      "U+0135", "U+0137", "U+013A", "U+013C", "U+013E", "U+0140", "U+0142",
      "U+0144", "U+0146", "U+0148", "U+014B", "U+014D", "U+014F", "U+0151",
      "U+0153", "U+0155", "U+0157", "U+0159", "U+015B", "U+015D", "U+015F",
      "U+0161", "U+0163", "U+0165", "U+0167", "U+0169", "U+016B", "U+016D",
      "U+016F", "U+0171", "U+0173", "U+0175", "U+0177", "U+00FF", "U+017A",
      "U+017C", "U+017E", "U+0253", "U+0183", "U+0185", "U+0254", "U+0188",
      "U+0256", "U+0257", "U+018C", "U+01DD", "U+0259", "U+025B", "U+0192",
      "U+0260", "U+0263", "U+0269", "U+0268", "U+0199", "U+026F", "U+0272",
      "U+0275", "U+01A1", "U+01A3", "U+01A5", "U+0280", "U+01A8", "U+0283",
      "U+01AD", "U+0288", "U+01B0", "U+028A", "U+028B", "U+01B4", "U+01B6",
      "U+0292", "U+01B9", "U+01BD", "U+01C6", "U+01C6", "U+01C9", "U+01C9",
      "U+01CC", "U+01CC", "U+01CE", "U+01D0", "U+01D2", "U+01D4", "U+01D6",
      "U+01D8", "U+01DA", "U+01DC", "U+01DF", "U+01E1", "U+01E3", "U+01E5",
      "U+01E7", "U+01E9", "U+01EB", "U+01ED", "U+01EF", "U+01F3", "U+01F3",
      "U+01F5", "U+0195", "U+01BF", "U+01F9", "U+01FB", "U+01FD", "U+01FF",
      "U+0201", "U+0203", "U+0205", "U+0207", "U+0209", "U+020B", "U+020D",
      "U+020F", "U+0211", "U+0213", "U+0215", "U+0217", "U+0219", "U+021B",
      "U+021D", "U+021F", "U+019E", "U+0223", "U+0225", "U+0227", "U+0229",
      "U+022B", "U+022D", "U+022F", "U+0231", "U+0233", "U+2C65", "U+023C",
      "U+019A", "U+2C66", "U+0242", "U+0180", "U+0289", "U+028C", "U+0247",
      "U+0249", "U+024B", "U+024D", "U+024F", "U+0371", "U+0373", "U+0377",
      "U+03F3", "U+03AC", "U+03AD", "U+03AE", "U+03AF", "U+03CC", "U+03CD",
      "U+03CE", "U+03B1", "U+03B2", "U+03B3", "U+03B4", "U+03B5", "U+03B6",
      "U+03B7", "U+03B8", "U+03B9", "U+03BA", "U+03BB", "U+03BC", "U+03BD",
      "U+03BE", "U+03BF", "U+03C0", "U+03C1", "U+03C3", "U+03C4", "U+03C5",
      "U+03C6", "U+03C7", "U+03C8", "U+03C9", "U+03CA", "U+03CB", "U+03D7",
      "U+03D9", "U+03DB", "U+03DD", "U+03DF", "U+03E1", "U+03E3", "U+03E5",
      "U+03E7", "U+03E9", "U+03EB", "U+03ED", "U+03EF", "U+03B8", "U+03F8",
      "U+03F2", "U+03FB", "U+037B", "U+037C", "U+037D", "U+0450", "U+0451",
      "U+0452", "U+0453", "U+0454", "U+0455", "U+0456", "U+0457", "U+0458",
      "U+0459", "U+045A", "U+045B", "U+045C", "U+045D", "U+045E", "U+045F",
      "U+0430", "U+0431", "U+0432", "U+0433", "U+0434", "U+0435", "U+0436",
      "U+0437", "U+0438", "U+0439", "U+043A", "U+043B", "U+043C", "U+043D",
      "U+043E", "U+043F", "U+0440", "U+0441", "U+0442", "U+0443", "U+0444",
      "U+0445", "U+0446", "U+0447", "U+0448", "U+0449", "U+044A", "U+044B",
      "U+044C", "U+044D", "U+044E", "U+044F", "U+0461", "U+0463", "U+0465",
      "U+0467", "U+0469", "U+046B", "U+046D", "U+046F", "U+0471", "U+0473",
      "U+0475", "U+0477", "U+0479", "U+047B", "U+047D", "U+047F", "U+0481",
      "U+048B", "U+048D", "U+048F", "U+0491", "U+0493", "U+0495", "U+0497",
      "U+0499", "U+049B", "U+049D", "U+049F", "U+04A1", "U+04A3", "U+04A5",
      "U+04A7", "U+04A9", "U+04AB", "U+04AD", "U+04AF", "U+04B1", "U+04B3",
      "U+04B5", "U+04B7", "U+04B9", "U+04BB", "U+04BD", "U+04BF", "U+04CF",
      "U+04C2", "U+04C4", "U+04C6", "U+04C8", "U+04CA", "U+04CC", "U+04CE",
      "U+04D1", "U+04D3", "U+04D5", "U+04D7", "U+04D9", "U+04DB", "U+04DD",
      "U+04DF", "U+04E1", "U+04E3", "U+04E5", "U+04E7", "U+04E9", "U+04EB",
      "U+04ED", "U+04EF", "U+04F1", "U+04F3", "U+04F5", "U+04F7", "U+04F9",
      "U+04FB", "U+04FD", "U+04FF", "U+0501", "U+0503", "U+0505", "U+0507",
      "U+0509", "U+050B", "U+050D", "U+050F", "U+0511", "U+0513", "U+0515",
      "U+0517", "U+0519", "U+051B", "U+051D", "U+051F", "U+0521", "U+0523",
      "U+0525", "U+0527", "U+0529", "U+052B", "U+052D", "U+052F", "U+0561",
      "U+0562", "U+0563", "U+0564", "U+0565", "U+0566", "U+0567", "U+0568",
      "U+0569", "U+056A", "U+056B", "U+056C", "U+056D", "U+056E", "U+056F",
      "U+0570", "U+0571", "U+0572", "U+0573", "U+0574", "U+0575", "U+0576",
      "U+0577", "U+0578", "U+0579", "U+057A", "U+057B", "U+057C", "U+057D",
      "U+057E", "U+057F", "U+0580", "U+0581", "U+0582", "U+0583", "U+0584",
      "U+0585", "U+0586", "U+2D00", "U+2D01", "U+2D02", "U+2D03", "U+2D04",
      "U+2D05", "U+2D06", "U+2D07", "U+2D08", "U+2D09", "U+2D0A", "U+2D0B",
      "U+2D0C", "U+2D0D", "U+2D0E", "U+2D0F", "U+2D10", "U+2D11", "U+2D12",
      "U+2D13", "U+2D14", "U+2D15", "U+2D16", "U+2D17", "U+2D18", "U+2D19",
      "U+2D1A", "U+2D1B", "U+2D1C", "U+2D1D", "U+2D1E", "U+2D1F", "U+2D20",
      "U+2D21", "U+2D22", "U+2D23", "U+2D24", "U+2D25", "U+2D27", "U+2D2D",
      "U+AB70", "U+AB71", "U+AB72", "U+AB73", "U+AB74", "U+AB75", "U+AB76",
      "U+AB77", "U+AB78", "U+AB79", "U+AB7A", "U+AB7B", "U+AB7C", "U+AB7D",
      "U+AB7E", "U+AB7F", "U+AB80", "U+AB81", "U+AB82", "U+AB83", "U+AB84",
      "U+AB85", "U+AB86", "U+AB87", "U+AB88", "U+AB89", "U+AB8A", "U+AB8B",
      "U+AB8C", "U+AB8D", "U+AB8E", "U+AB8F", "U+AB90", "U+AB91", "U+AB92",
      "U+AB93", "U+AB94", "U+AB95", "U+AB96", "U+AB97", "U+AB98", "U+AB99",
      "U+AB9A", "U+AB9B", "U+AB9C", "U+AB9D", "U+AB9E", "U+AB9F", "U+ABA0",
      "U+ABA1", "U+ABA2", "U+ABA3", "U+ABA4", "U+ABA5", "U+ABA6", "U+ABA7",
      "U+ABA8", "U+ABA9", "U+ABAA", "U+ABAB", "U+ABAC", "U+ABAD", "U+ABAE",
      "U+ABAF", "U+ABB0", "U+ABB1", "U+ABB2", "U+ABB3", "U+ABB4", "U+ABB5",
      "U+ABB6", "U+ABB7", "U+ABB8", "U+ABB9", "U+ABBA", "U+ABBB", "U+ABBC",
      "U+ABBD", "U+ABBE", "U+ABBF", "U+13F8", "U+13F9", "U+13FA", "U+13FB",
      "U+13FC", "U+13FD", "U+10D0", "U+10D1", "U+10D2", "U+10D3", "U+10D4",
      "U+10D5", "U+10D6", "U+10D7", "U+10D8", "U+10D9", "U+10DA", "U+10DB",
      "U+10DC", "U+10DD", "U+10DE", "U+10DF", "U+10E0", "U+10E1", "U+10E2",
      "U+10E3", "U+10E4", "U+10E5", "U+10E6", "U+10E7", "U+10E8", "U+10E9",
      "U+10EA", "U+10EB", "U+10EC", "U+10ED", "U+10EE", "U+10EF", "U+10F0",
      "U+10F1", "U+10F2", "U+10F3", "U+10F4", "U+10F5", "U+10F6", "U+10F7",
      "U+10F8", "U+10F9", "U+10FA", "U+10FD", "U+10FE", "U+10FF", "U+1E01",
      "U+1E03", "U+1E05", "U+1E07", "U+1E09", "U+1E0B", "U+1E0D", "U+1E0F",
      "U+1E11", "U+1E13", "U+1E15", "U+1E17", "U+1E19", "U+1E1B", "U+1E1D",
      "U+1E1F", "U+1E21", "U+1E23", "U+1E25", "U+1E27", "U+1E29", "U+1E2B",
      "U+1E2D", "U+1E2F", "U+1E31", "U+1E33", "U+1E35", "U+1E37", "U+1E39",
      "U+1E3B", "U+1E3D", "U+1E3F", "U+1E41", "U+1E43", "U+1E45", "U+1E47",
      "U+1E49", "U+1E4B", "U+1E4D", "U+1E4F", "U+1E51", "U+1E53", "U+1E55",
      "U+1E57", "U+1E59", "U+1E5B", "U+1E5D", "U+1E5F", "U+1E61", "U+1E63",
      "U+1E65", "U+1E67", "U+1E69", "U+1E6B", "U+1E6D", "U+1E6F", "U+1E71",
      "U+1E73", "U+1E75", "U+1E77", "U+1E79", "U+1E7B", "U+1E7D", "U+1E7F",
      "U+1E81", "U+1E83", "U+1E85", "U+1E87", "U+1E89", "U+1E8B", "U+1E8D",
      "U+1E8F", "U+1E91", "U+1E93", "U+1E95", "U+00DF", "U+1EA1", "U+1EA3",
      "U+1EA5", "U+1EA7", "U+1EA9", "U+1EAB", "U+1EAD", "U+1EAF", "U+1EB1",
      "U+1EB3", "U+1EB5", "U+1EB7", "U+1EB9", "U+1EBB", "U+1EBD", "U+1EBF",
      "U+1EC1", "U+1EC3", "U+1EC5", "U+1EC7", "U+1EC9", "U+1ECB", "U+1ECD",
      "U+1ECF", "U+1ED1", "U+1ED3", "U+1ED5", "U+1ED7", "U+1ED9", "U+1EDB",
      "U+1EDD", "U+1EDF", "U+1EE1", "U+1EE3", "U+1EE5", "U+1EE7", "U+1EE9",
      "U+1EEB", "U+1EED", "U+1EEF", "U+1EF1", "U+1EF3", "U+1EF5", "U+1EF7",
      "U+1EF9", "U+1EFB", "U+1EFD", "U+1EFF", "U+1F00", "U+1F01", "U+1F02",
      "U+1F03", "U+1F04", "U+1F05", "U+1F06", "U+1F07", "U+1F10", "U+1F11",
      "U+1F12", "U+1F13", "U+1F14", "U+1F15", "U+1F20", "U+1F21", "U+1F22",
      "U+1F23", "U+1F24", "U+1F25", "U+1F26", "U+1F27", "U+1F30", "U+1F31",
      "U+1F32", "U+1F33", "U+1F34", "U+1F35", "U+1F36", "U+1F37", "U+1F40",
      "U+1F41", "U+1F42", "U+1F43", "U+1F44", "U+1F45", "U+1F51", "U+1F53",
      "U+1F55", "U+1F57", "U+1F60", "U+1F61", "U+1F62", "U+1F63", "U+1F64",
      "U+1F65", "U+1F66", "U+1F67", "U+1F80", "U+1F81", "U+1F82", "U+1F83",
      "U+1F84", "U+1F85", "U+1F86", "U+1F87", "U+1F90", "U+1F91", "U+1F92",
      "U+1F93", "U+1F94", "U+1F95", "U+1F96", "U+1F97", "U+1FA0", "U+1FA1",
      "U+1FA2", "U+1FA3", "U+1FA4", "U+1FA5", "U+1FA6", "U+1FA7", "U+1FB0",
      "U+1FB1", "U+1F70", "U+1F71", "U+1FB3", "U+1F72", "U+1F73", "U+1F74",
      "U+1F75", "U+1FC3", "U+1FD0", "U+1FD1", "U+1F76", "U+1F77", "U+1FE0",
      "U+1FE1", "U+1F7A", "U+1F7B", "U+1FE5", "U+1F78", "U+1F79", "U+1F7C",
      "U+1F7D", "U+1FF3", "U+03C9", "k", "U+00E5", "U+214E", "U+2170",
      "U+2171", "U+2172", "U+2173", "U+2174", "U+2175", "U+2176", "U+2177",
      "U+2178", "U+2179", "U+217A", "U+217B", "U+217C", "U+217D", "U+217E",
      "U+217F", "U+2184", "U+24D0", "U+24D1", "U+24D2", "U+24D3", "U+24D4",
      "U+24D5", "U+24D6", "U+24D7", "U+24D8", "U+24D9", "U+24DA", "U+24DB",
      "U+24DC", "U+24DD", "U+24DE", "U+24DF", "U+24E0", "U+24E1", "U+24E2",
      "U+24E3", "U+24E4", "U+24E5", "U+24E6", "U+24E7", "U+24E8", "U+24E9",
      "U+2C30", "U+2C31", "U+2C32", "U+2C33", "U+2C34", "U+2C35", "U+2C36",
      "U+2C37", "U+2C38", "U+2C39", "U+2C3A", "U+2C3B", "U+2C3C", "U+2C3D",
      "U+2C3E", "U+2C3F", "U+2C40", "U+2C41", "U+2C42", "U+2C43", "U+2C44",
      "U+2C45", "U+2C46", "U+2C47", "U+2C48", "U+2C49", "U+2C4A", "U+2C4B",
      "U+2C4C", "U+2C4D", "U+2C4E", "U+2C4F", "U+2C50", "U+2C51", "U+2C52",
      "U+2C53", "U+2C54", "U+2C55", "U+2C56", "U+2C57", "U+2C58", "U+2C59",
      "U+2C5A", "U+2C5B", "U+2C5C", "U+2C5D", "U+2C5E", "U+2C5F", "U+2C61",
      "U+026B", "U+1D7D", "U+027D", "U+2C68", "U+2C6A", "U+2C6C", "U+0251",
      "U+0271", "U+0250", "U+0252", "U+2C73", "U+2C76", "U+023F", "U+0240",
      "U+2C81", "U+2C83", "U+2C85", "U+2C87", "U+2C89", "U+2C8B", "U+2C8D",
      "U+2C8F", "U+2C91", "U+2C93", "U+2C95", "U+2C97", "U+2C99", "U+2C9B",
      "U+2C9D", "U+2C9F", "U+2CA1", "U+2CA3", "U+2CA5", "U+2CA7", "U+2CA9",
      "U+2CAB", "U+2CAD", "U+2CAF", "U+2CB1", "U+2CB3", "U+2CB5", "U+2CB7",
      "U+2CB9", "U+2CBB", "U+2CBD", "U+2CBF", "U+2CC1", "U+2CC3", "U+2CC5",
      "U+2CC7", "U+2CC9", "U+2CCB", "U+2CCD", "U+2CCF", "U+2CD1", "U+2CD3",
      "U+2CD5", "U+2CD7", "U+2CD9", "U+2CDB", "U+2CDD", "U+2CDF", "U+2CE1",
      "U+2CE3", "U+2CEC", "U+2CEE", "U+2CF3", "U+A641", "U+A643", "U+A645",
      "U+A647", "U+A649", "U+A64B", "U+A64D", "U+A64F", "U+A651", "U+A653",
      "U+A655", "U+A657", "U+A659", "U+A65B", "U+A65D", "U+A65F", "U+A661",
      "U+A663", "U+A665", "U+A667", "U+A669", "U+A66B", "U+A66D", "U+A681",
      "U+A683", "U+A685", "U+A687", "U+A689", "U+A68B", "U+A68D", "U+A68F",
      "U+A691", "U+A693", "U+A695", "U+A697", "U+A699", "U+A69B", "U+A723",
      "U+A725", "U+A727", "U+A729", "U+A72B", "U+A72D", "U+A72F", "U+A733",
      "U+A735", "U+A737", "U+A739", "U+A73B", "U+A73D", "U+A73F", "U+A741",
      "U+A743", "U+A745", "U+A747", "U+A749", "U+A74B", "U+A74D", "U+A74F",
      "U+A751", "U+A753", "U+A755", "U+A757", "U+A759", "U+A75B", "U+A75D",
      "U+A75F", "U+A761", "U+A763", "U+A765", "U+A767", "U+A769", "U+A76B",
      "U+A76D", "U+A76F", "U+A77A", "U+A77C", "U+1D79", "U+A77F", "U+A781",
      "U+A783", "U+A785", "U+A787", "U+A78C", "U+0265", "U+A791", "U+A793",
      "U+A797", "U+A799", "U+A79B", "U+A79D", "U+A79F", "U+A7A1", "U+A7A3",
      "U+A7A5", "U+A7A7", "U+A7A9", "U+0266", "U+025C", "U+0261", "U+026C",
      "U+026A", "U+029E", "U+0287", "U+029D", "U+AB53", "U+A7B5", "U+A7B7",
      "U+A7B9", "U+A7BB", "U+A7BD", "U+A7BF", "U+A7C1", "U+A7C3", "U+A794",
      "U+0282", "U+1D8E", "U+A7C8", "U+A7CA", "U+A7D1", "U+A7D7", "U+A7D9",
      "U+A7F6", "U+FF41", "U+FF42", "U+FF43", "U+FF44", "U+FF45", "U+FF46",
      "U+FF47", "U+FF48", "U+FF49", "U+FF4A", "U+FF4B", "U+FF4C", "U+FF4D",
      "U+FF4E", "U+FF4F", "U+FF50", "U+FF51", "U+FF52", "U+FF53", "U+FF54",
      "U+FF55", "U+FF56", "U+FF57", "U+FF58", "U+FF59", "U+FF5A", "U+10428",
      "U+10429", "U+1042A", "U+1042B", "U+1042C", "U+1042D", "U+1042E",
      "U+1042F", "U+10430", "U+10431", "U+10432", "U+10433", "U+10434",
      "U+10435", "U+10436", "U+10437", "U+10438", "U+10439", "U+1043A",
      "U+1043B", "U+1043C", "U+1043D", "U+1043E", "U+1043F", "U+10440",
      "U+10441", "U+10442", "U+10443", "U+10444", "U+10445", "U+10446",
      "U+10447", "U+10448", "U+10449", "U+1044A", "U+1044B", "U+1044C",
      "U+1044D", "U+1044E", "U+1044F", "U+104D8", "U+104D9", "U+104DA",
      "U+104DB", "U+104DC", "U+104DD", "U+104DE", "U+104DF", "U+104E0",
      "U+104E1", "U+104E2", "U+104E3", "U+104E4", "U+104E5", "U+104E6",
      "U+104E7", "U+104E8", "U+104E9", "U+104EA", "U+104EB", "U+104EC",
      "U+104ED", "U+104EE", "U+104EF", "U+104F0", "U+104F1", "U+104F2",
      "U+104F3", "U+104F4", "U+104F5", "U+104F6", "U+104F7", "U+104F8",
      "U+104F9", "U+104FA", "U+104FB", "U+10597", "U+10598", "U+10599",
      "U+1059A", "U+1059B", "U+1059C", "U+1059D", "U+1059E", "U+1059F",
      "U+105A0", "U+105A1", "U+105A3", "U+105A4", "U+105A5", "U+105A6",
      "U+105A7", "U+105A8", "U+105A9", "U+105AA", "U+105AB", "U+105AC",
      "U+105AD", "U+105AE", "U+105AF", "U+105B0", "U+105B1", "U+105B3",
      "U+105B4", "U+105B5", "U+105B6", "U+105B7", "U+105B8", "U+105B9",
      "U+105BB", "U+105BC", "U+10CC0", "U+10CC1", "U+10CC2", "U+10CC3",
      "U+10CC4", "U+10CC5", "U+10CC6", "U+10CC7", "U+10CC8", "U+10CC9",
      "U+10CCA", "U+10CCB", "U+10CCC", "U+10CCD", "U+10CCE", "U+10CCF",
      "U+10CD0", "U+10CD1", "U+10CD2", "U+10CD3", "U+10CD4", "U+10CD5",
      "U+10CD6", "U+10CD7", "U+10CD8", "U+10CD9", "U+10CDA", "U+10CDB",
      "U+10CDC", "U+10CDD", "U+10CDE", "U+10CDF", "U+10CE0", "U+10CE1",
      "U+10CE2", "U+10CE3", "U+10CE4", "U+10CE5", "U+10CE6", "U+10CE7",
      "U+10CE8", "U+10CE9", "U+10CEA", "U+10CEB", "U+10CEC", "U+10CED",
      "U+10CEE", "U+10CEF", "U+10CF0", "U+10CF1", "U+10CF2", "U+118C0",
      "U+118C1", "U+118C2", "U+118C3", "U+118C4", "U+118C5", "U+118C6",
      "U+118C7", "U+118C8", "U+118C9", "U+118CA", "U+118CB", "U+118CC",
      "U+118CD", "U+118CE", "U+118CF", "U+118D0", "U+118D1", "U+118D2",
      "U+118D3", "U+118D4", "U+118D5", "U+118D6", "U+118D7", "U+118D8",
      "U+118D9", "U+118DA", "U+118DB", "U+118DC", "U+118DD", "U+118DE",
      "U+118DF", "U+16E60", "U+16E61", "U+16E62", "U+16E63", "U+16E64",
      "U+16E65", "U+16E66", "U+16E67", "U+16E68", "U+16E69", "U+16E6A",
      "U+16E6B", "U+16E6C", "U+16E6D", "U+16E6E", "U+16E6F", "U+16E70",
      "U+16E71", "U+16E72", "U+16E73", "U+16E74", "U+16E75", "U+16E76",
      "U+16E77", "U+16E78", "U+16E79", "U+16E7A", "U+16E7B", "U+16E7C",
      "U+16E7D", "U+16E7E", "U+16E7F", "U+1E922", "U+1E923", "U+1E924",
      "U+1E925", "U+1E926", "U+1E927", "U+1E928", "U+1E929", "U+1E92A",
      "U+1E92B", "U+1E92C", "U+1E92D", "U+1E92E", "U+1E92F", "U+1E930",
      "U+1E931", "U+1E932", "U+1E933", "U+1E934", "U+1E935", "U+1E936",
      "U+1E937", "U+1E938", "U+1E939", "U+1E93A", "U+1E93B", "U+1E93C",
      "U+1E93D", "U+1E93E", "U+1E93F", "U+1E940", "U+1E941", "U+1E942",
      "U+1E943">>

(* The characters of two UTF-8 bytes, U+0080 to U+07FF, in the order of    *)
(* their codes.                                                            *)
TwoByteCodes ==
    <<"U+0080", "U+0081", "U+0082", "U+0083", "U+0084", "U+0085", "U+0086",
      "U+0087", "U+0088", "U+0089", "U+008A", "U+008B", "U+008C", "U+008D",
      "U+008E", "U+008F", "U+0090", "U+0091", "U+0092", "U+0093", "U+0094",
      "U+0095", "U+0096", "U+0097", "U+0098", "U+0099", "U+009A", "U+009B",
      "U+009C", "U+009D", "U+009E", "U+009F", "U+00A0", "U+00A1", "U+00A2",
      "U+00A3", "U+00A4", "U+00A5", "U+00A6", "U+00A7", "U+00A8", "U+00A9",
      "U+00AA", "U+00AB", "U+00AC", "U+00AD", "U+00AE", "U+00AF", "U+00B0",
      "U+00B1", "U+00B2", "U+00B3", "U+00B4", "U+00B5", "U+00B6", "U+00B7",
      "U+00B8", "U+00B9", "U+00BA", "U+00BB", "U+00BC", "U+00BD", "U+00BE",
      "U+00BF", "U+00C0", "U+00C1", "U+00C2", "U+00C3", "U+00C4", "U+00C5",
      "U+00C6", "U+00C7", "U+00C8", "U+00C9", "U+00CA", "U+00CB", "U+00CC",
      "U+00CD", "U+00CE", "U+00CF", "U+00D0", "U+00D1", "U+00D2", "U+00D3",
      "U+00D4", "U+00D5", "U+00D6", "U+00D7", "U+00D8", "U+00D9", "U+00DA",
      "U+00DB", "U+00DC", "U+00DD", "U+00DE", "U+00DF", "U+00E0", "U+00E1",
      "U+00E2", "U+00E3", "U+00E4", "U+00E5", "U+00E6", "U+00E7", "U+00E8",
      "U+00E9", "U+00EA", "U+00EB", "U+00EC", "U+00ED", "U+00EE", "U+00EF",
      "U+00F0", "U+00F1", "U+00F2", "U+00F3", "U+00F4", "U+00F5", "U+00F6",
      "U+00F7", "U+00F8", "U+00F9", "U+00FA", "U+00FB", "U+00FC", "U+00FD",
      "U+00FE", "U+00FF", "U+0100", "U+0101", "U+0102", "U+0103", "U+0104",
      "U+0105", "U+0106", "U+0107", "U+0108", "U+0109", "U+010A", "U+010B",
      "U+010C", "U+010D", "U+010E", "U+010F", "U+0110", "U+0111", "U+0112",
      "U+0113", "U+0114", "U+0115", "U+0116", "U+0117", "U+0118", "U+0119",
      "U+011A", "U+011B", "U+011C", "U+011D", "U+011E", "U+011F", "U+0120",
      "U+0121", "U+0122", "U+0123", "U+0124", "U+0125", "U+0126", "U+0127",
      "U+0128", "U+0129", "U+012A", "U+012B", "U+012C", "U+012D", "U+012E",
      "U+012F", "U+0130", "U+0131", "U+0132", "U+0133", "U+0134", "U+0135",
      "U+0136", "U+0137", "U+0138", "U+0139", "U+013A", "U+013B", "U+013C",
      "U+013D", "U+013E", "U+013F", "U+0140", "U+0141", "U+0142", "U+0143",
      "U+0144", "U+0145", "U+0146", "U+0147", "U+0148", "U+0149", "U+014A",
      "U+014B", "U+014C", "U+014D", "U+014E", "U+014F", "U+0150", "U+0151",
      "U+0152", "U+0153", "U+0154", "U+0155", "U+0156", "U+0157", "U+0158",
      "U+0159", "U+015A", "U+015B", "U+015C", "U+015D", "U+015E", "U+015F",
      "U+0160", "U+0161", "U+0162", "U+0163", "U+0164", "U+0165", "U+0166",
      "U+0167", "U+0168", "U+0169", "U+016A", "U+016B", "U+016C", "U+016D",
      "U+016E", "U+016F", "U+0170", "U+0171", "U+0172", "U+0173", "U+0174",
      "U+0175", "U+0176", "U+0177", "U+0178", "U+0179", "U+017A", "U+017B",
      "U+017C", "U+017D", "U+017E", "U+017F", "U+0180", "U+0181", "U+0182",
      "U+0183", "U+0184", "U+0185", "U+0186", "U+0187", "U+0188", "U+0189",
      "U+018A", "U+018B", "U+018C", "U+018D", "U+018E", "U+018F", "U+0190",
      "U+0191", "U+0192", "U+0193", "U+0194", "U+0195", "U+0196", "U+0197",
      "U+0198", "U+0199", "U+019A", "U+019B", "U+019C", "U+019D", "U+019E",
      "U+019F", "U+01A0", "U+01A1", "U+01A2", "U+01A3", "U+01A4", "U+01A5",
      "U+01A6", "U+01A7", "U+01A8", "U+01A9", "U+01AA", "U+01AB", "U+01AC",
      "U+01AD", "U+01AE", "U+01AF", "U+01B0", "U+01B1", "U+01B2", "U+01B3",
      "U+01B4", "U+01B5", "U+01B6", "U+01B7", "U+01B8", "U+01B9", "U+01BA",
      "U+01BB", "U+01BC", "U+01BD", "U+01BE", "U+01BF", "U+01C0", "U+01C1",
      "U+01C2", "U+01C3", "U+01C4", "U+01C5", "U+01C6", "U+01C7", "U+01C8",
      "U+01C9", "U+01CA", "U+01CB", "U+01CC", "U+01CD", "U+01CE", "U+01CF",
      "U+01D0", "U+01D1", "U+01D2", "U+01D3", "U+01D4", "U+01D5", "U+01D6",
      "U+01D7", "U+01D8", "U+01D9", "U+01DA", "U+01DB", "U+01DC", "U+01DD",
      "U+01DE", "U+01DF", "U+01E0", "U+01E1", "U+01E2", "U+01E3", "U+01E4",
      "U+01E5", "U+01E6", "U+01E7", "U+01E8", "U+01E9", "U+01EA", "U+01EB",
      "U+01EC", "U+01ED", "U+01EE", "U+01EF", "U+01F0", "U+01F1", "U+01F2",
      "U+01F3", "U+01F4", "U+01F5", "U+01F6", "U+01F7", "U+01F8", "U+01F9",
      "U+01FA", "U+01FB", "U+01FC", "U+01FD", "U+01FE", "U+01FF", "U+0200",
      "U+0201", "U+0202", "U+0203", "U+0204", "U+0205", "U+0206", "U+0207",
      "U+0208", "U+0209", "U+020A", "U+020B", "U+020C", "U+020D", "U+020E",
      "U+020F", "U+0210", "U+0211", "U+0212", "U+0213", "U+0214", "U+0215",
      "U+0216", "U+0217", "U+0218", "U+0219", "U+021A", "U+021B", "U+021C",
      "U+021D", "U+021E", "U+021F", "U+0220", "U+0221", "U+0222", "U+0223",
      "U+0224", "U+0225", "U+0226", "U+0227", "U+0228", "U+0229", "U+022A",
      "U+022B", "U+022C", "U+022D", "U+022E", "U+022F", "U+0230", "U+0231",
      "U+0232", "U+0233", "U+0234", "U+0235", "U+0236", "U+0237", "U+0238",
      "U+0239", "U+023A", "U+023B", "U+023C", "U+023D", "U+023E", "U+023F",
      "U+0240", "U+0241", "U+0242", "U+0243", "U+0244", "U+0245", "U+0246",
      "U+0247", "U+0248", "U+0249", "U+024A", "U+024B", "U+024C", "U+024D",
      "U+024E", "U+024F", "U+0250", "U+0251", "U+0252", "U+0253", "U+0254",
      "U+0255", "U+0256", "U+0257", "U+0258", "U+0259", "U+025A", "U+025B",
      "U+025C", "U+025D", "U+025E", "U+025F", "U+0260", "U+0261", "U+0262",
      "U+0263", "U+0264", "U+0265", "U+0266", "U+0267", "U+0268", "U+0269",
      "U+026A", "U+026B", "U+026C", "U+026D", "U+026E", "U+026F", "U+0270",
      "U+0271", "U+0272", "U+0273", "U+0274", "U+0275", "U+0276", "U+0277",
      "U+0278", "U+0279", "U+027A", "U+027B", "U+027C", "U+027D", "U+027E",
      "U+027F", "U+0280", "U+0281", "U+0282", "U+0283", "U+0284", "U+0285",
      "U+0286", "U+0287", "U+0288", "U+0289", "U+028A", "U+028B", "U+028C",
      "U+028D", "U+028E", "U+028F", "U+0290", "U+0291", "U+0292", "U+0293",
      "U+0294", "U+0295", "U+0296", "U+0297", "U+0298", "U+0299", "U+029A",
      "U+029B", "U+029C", "U+029D", "U+029E", "U+029F", "U+02A0", "U+02A1",
      "U+02A2", "U+02A3", "U+02A4", "U+02A5", "U+02A6", "U+02A7", "U+02A8",
      "U+02A9", "U+02AA", "U+02AB", "U+02AC", "U+02AD", "U+02AE", "U+02AF",
      "U+02B0", "U+02B1", "U+02B2", "U+02B3", "U+02B4", "U+02B5", "U+02B6",
      "U+02B7", "U+02B8", "U+02B9", "U+02BA", "U+02BB", "U+02BC", "U+02BD",
      "U+02BE", "U+02BF", "U+02C0", "U+02C1", "U+02C2", "U+02C3", "U+02C4",
      "U+02C5", "U+02C6", "U+02C7", "U+02C8", "U+02C9", "U+02CA", "U+02CB",
      "U+02CC", "U+02CD", "U+02CE", "U+02CF", "U+02D0", "U+02D1", "U+02D2",
      "U+02D3", "U+02D4", "U+02D5", "U+02D6", "U+02D7", "U+02D8", "U+02D9",
      "U+02DA", "U+02DB", "U+02DC", "U+02DD", "U+02DE", "U+02DF", "U+02E0",
      "U+02E1", "U+02E2", "U+02E3", "U+02E4", "U+02E5", "U+02E6", "U+02E7",
      "U+02E8", "U+02E9", "U+02EA", "U+02EB", "U+02EC", "U+02ED", "U+02EE",
      "U+02EF", "U+02F0", "U+02F1", "U+02F2", "U+02F3", "U+02F4", "U+02F5",
      "U+02F6", "U+02F7", "U+02F8", "U+02F9", "U+02FA", "U+02FB", "U+02FC",
      "U+02FD", "U+02FE", "U+02FF", "U+0300", "U+0301", "U+0302", "U+0303",
      "U+0304", "U+0305", "U+0306", "U+0307", "U+0308", "U+0309", "U+030A",
      "U+030B", "U+030C", "U+030D", "U+030E", "U+030F", "U+0310", "U+0311",
      "U+0312", "U+0313", "U+0314", "U+0315", "U+0316", "U+0317", "U+0318",
      "U+0319", "U+031A", "U+031B", "U+031C", "U+031D", "U+031E", "U+031F",
      "U+0320", "U+0321", "U+0322", "U+0323", "U+0324", "U+0325", "U+0326",
      "U+0327", "U+0328", "U+0329", "U+032A", "U+032B", "U+032C", "U+032D",
      "U+032E", "U+032F", "U+0330", "U+0331", "U+0332", "U+0333", "U+0334",
      "U+0335", "U+0336", "U+0337", "U+0338", "U+0339", "U+033A", "U+033B",
      "U+033C", "U+033D", "U+033E", "U+033F", "U+0340", "U+0341", "U+0342",
      "U+0343", "U+0344", "U+0345", "U+0346", "U+0347", "U+0348", "U+0349",
      "U+034A", "U+034B", "U+034C", "U+034D", "U+034E", "U+034F", "U+0350",
      "U+0351", "U+0352", "U+0353", "U+0354", "U+0355", "U+0356", "U+0357",
      "U+0358", "U+0359", "U+035A", "U+035B", "U+035C", "U+035D", "U+035E",
      "U+035F", "U+0360", "U+0361", "U+0362", "U+0363", "U+0364", "U+0365",
      "U+0366", "U+0367", "U+0368", "U+0369", "U+036A", "U+036B", "U+036C",
      "U+036D", "U+036E", "U+036F", "U+0370", "U+0371", "U+0372", "U+0373",
      "U+0374", "U+0375", "U+0376", "U+0377", "U+0378", "U+0379", "U+037A",
      "U+037B", "U+037C", "U+037D", "U+037E", "U+037F", "U+0380", "U+0381",
      "U+0382", "U+0383", "U+0384", "U+0385", "U+0386", "U+0387", "U+0388",
      "U+0389", "U+038A", "U+038B", "U+038C", "U+038D", "U+038E", "U+038F",
      "U+0390", "U+0391", "U+0392", "U+0393", "U+0394", "U+0395", "U+0396",
      "U+0397", "U+0398", "U+0399", "U+039A", "U+039B", "U+039C", "U+039D",
      "U+039E", "U+039F", "U+03A0", "U+03A1", "U+03A2", "U+03A3", "U+03A4",
      "U+03A5", "U+03A6", "U+03A7", "U+03A8", "U+03A9", "U+03AA", "U+03AB",
      "U+03AC", "U+03AD", "U+03AE", "U+03AF", "U+03B0", "U+03B1", "U+03B2",
      "U+03B3", "U+03B4", "U+03B5", "U+03B6", "U+03B7", "U+03B8", "U+03B9",
      "U+03BA", "U+03BB", "U+03BC", "U+03BD", "U+03BE", "U+03BF", "U+03C0",
      "U+03C1", "U+03C2", "U+03C3", "U+03C4", "U+03C5", "U+03C6", "U+03C7",
      "U+03C8", "U+03C9", "U+03CA", "U+03CB", "U+03CC", "U+03CD", "U+03CE",
      "U+03CF", "U+03D0", "U+03D1", "U+03D2", "U+03D3", "U+03D4", "U+03D5",
      "U+03D6", "U+03D7", "U+03D8", "U+03D9", "U+03DA", "U+03DB", "U+03DC",
      "U+03DD", "U+03DE", "U+03DF", "U+03E0", "U+03E1", "U+03E2", "U+03E3",
      "U+03E4", "U+03E5", "U+03E6", "U+03E7", "U+03E8", "U+03E9", "U+03EA",
      "U+03EB", "U+03EC", "U+03ED", "U+03EE", "U+03EF", "U+03F0", "U+03F1",
      "U+03F2", "U+03F3", "U+03F4", "U+03F5", "U+03F6", "U+03F7", "U+03F8",
      "U+03F9", "U+03FA", "U+03FB", "U+03FC", "U+03FD", "U+03FE", "U+03FF",
      "U+0400", "U+0401", "U+0402", "U+0403", "U+0404", "U+0405", "U+0406",
      "U+0407", "U+0408", "U+0409", "U+040A", "U+040B", "U+040C", "U+040D",
      "U+040E", "U+040F", "U+0410", "U+0411", "U+0412", "U+0413", "U+0414",
      "U+0415", "U+0416", "U+0417", "U+0418", "U+0419", "U+041A", "U+041B",
      "U+041C", "U+041D", "U+041E", "U+041F", "U+0420", "U+0421", "U+0422",
      "U+0423", "U+0424", "U+0425", "U+0426", "U+0427", "U+0428", "U+0429",
      "U+042A", "U+042B", "U+042C", "U+042D", "U+042E", "U+042F", "U+0430",
      "U+0431", "U+0432", "U+0433", "U+0434", "U+0435", "U+0436", "U+0437",
      "U+0438", "U+0439", "U+043A", "U+043B", "U+043C", "U+043D", "U+043E",
      "U+043F", "U+0440", "U+0441", "U+0442", "U+0443", "U+0444", "U+0445",
      "U+0446", "U+0447", "U+0448", "U+0449", "U+044A", "U+044B", "U+044C",
      "U+044D", "U+044E", "U+044F", "U+0450", "U+0451", "U+0452", "U+0453",
      "U+0454", "U+0455", "U+0456", "U+0457", "U+0458", "U+0459", "U+045A",
      "U+045B", "U+045C", "U+045D", "U+045E", "U+045F", "U+0460", "U+0461",
      "U+0462", "U+0463", "U+0464", "U+0465", "U+0466", "U+0467", "U+0468",
      "U+0469", "U+046A", "U+046B", "U+046C", "U+046D", "U+046E", "U+046F",
      "U+0470", "U+0471", "U+0472", "U+0473", "U+0474", "U+0475", "U+0476",
      "U+0477", "U+0478", "U+0479", "U+047A", "U+047B", "U+047C", "U+047D",
      "U+047E", "U+047F", "U+0480", "U+0481", "U+0482", "U+0483", "U+0484",
      "U+0485", "U+0486", "U+0487", "U+0488", "U+0489", "U+048A", "U+048B",
      "U+048C", "U+048D", "U+048E", "U+048F", "U+0490", "U+0491", "U+0492",
      "U+0493", "U+0494", "U+0495", "U+0496", "U+0497", "U+0498", "U+0499",
      "U+049A", "U+049B", "U+049C", "U+049D", "U+049E", "U+049F", "U+04A0",
      "U+04A1", "U+04A2", "U+04A3", "U+04A4", "U+04A5", "U+04A6", "U+04A7",
      "U+04A8", "U+04A9", "U+04AA", "U+04AB", "U+04AC", "U+04AD", "U+04AE",
      "U+04AF", "U+04B0", "U+04B1", "U+04B2", "U+04B3", "U+04B4", "U+04B5",
      "U+04B6", "U+04B7", "U+04B8", "U+04B9", "U+04BA", "U+04BB", "U+04BC",
      "U+04BD", "U+04BE", "U+04BF", "U+04C0", "U+04C1", "U+04C2", "U+04C3",
      "U+04C4", "U+04C5", "U+04C6", "U+04C7", "U+04C8", "U+04C9", "U+04CA",
      "U+04CB", "U+04CC", "U+04CD", "U+04CE", "U+04CF", "U+04D0", "U+04D1",
      "U+04D2", "U+04D3", "U+04D4", "U+04D5", "U+04D6", "U+04D7", "U+04D8",
      "U+04D9", "U+04DA", "U+04DB", "U+04DC", "U+04DD", "U+04DE", "U+04DF",
      "U+04E0", "U+04E1", "U+04E2", "U+04E3", "U+04E4", "U+04E5", "U+04E6",
      "U+04E7", "U+04E8", "U+04E9", "U+04EA", "U+04EB", "U+04EC", "U+04ED",
      "U+04EE", "U+04EF", "U+04F0", "U+04F1", "U+04F2", "U+04F3", "U+04F4",
      "U+04F5", "U+04F6", "U+04F7", "U+04F8", "U+04F9", "U+04FA", "U+04FB",
      "U+04FC", "U+04FD", "U+04FE", "U+04FF", "U+0500", "U+0501", "U+0502",
      "U+0503", "U+0504", "U+0505", "U+0506", "U+0507", "U+0508", "U+0509",
      "U+050A", "U+050B", "U+050C", "U+050D", "U+050E", "U+050F", "U+0510",
      "U+0511", "U+0512", "U+0513", "U+0514", "U+0515", "U+0516", "U+0517",
      "U+0518", "U+0519", "U+051A", "U+051B", "U+051C", "U+051D", "U+051E",
      "U+051F", "U+0520", "U+0521", "U+0522", "U+0523", "U+0524", "U+0525",
      "U+0526", "U+0527", "U+0528", "U+0529", "U+052A", "U+052B", "U+052C",
      "U+052D", "U+052E", "U+052F", "U+0530", "U+0531", "U+0532", "U+0533",
      "U+0534", "U+0535", "U+0536", "U+0537", "U+0538", "U+0539", "U+053A",
      "U+053B", "U+053C", "U+053D", "U+053E", "U+053F", "U+0540", "U+0541",
      "U+0542", "U+0543", "U+0544", "U+0545", "U+0546", "U+0547", "U+0548",
      "U+0549", "U+054A", "U+054B", "U+054C", "U+054D", "U+054E", "U+054F",
      "U+0550", "U+0551", "U+0552", "U+0553", "U+0554", "U+0555", "U+0556",
      "U+0557", "U+0558", "U+0559", "U+055A", "U+055B", "U+055C", "U+055D",
      "U+055E", "U+055F", "U+0560", "U+0561", "U+0562", "U+0563", "U+0564",
      "U+0565", "U+0566", "U+0567", "U+0568", "U+0569", "U+056A", "U+056B",
      "U+056C", "U+056D", "U+056E", "U+056F", "U+0570", "U+0571", "U+0572",
      "U+0573", "U+0574", "U+0575", "U+0576", "U+0577", "U+0578", "U+0579",
      "U+057A", "U+057B", "U+057C", "U+057D", "U+057E", "U+057F", "U+0580",
      "U+0581", "U+0582", "U+0583", "U+0584", "U+0585", "U+0586", "U+0587",
      "U+0588", "U+0589", "U+058A", "U+058B", "U+058C", "U+058D", "U+058E",
      "U+058F", "U+0590", "U+0591", "U+0592", "U+0593", "U+0594", "U+0595",
      "U+0596", "U+0597", "U+0598", "U+0599", "U+059A", "U+059B", "U+059C",
      "U+059D", "U+059E", "U+059F", "U+05A0", "U+05A1", "U+05A2", "U+05A3",
      "U+05A4", "U+05A5", "U+05A6", "U+05A7", "U+05A8", "U+05A9", "U+05AA",
      "U+05AB", "U+05AC", "U+05AD", "U+05AE", "U+05AF", "U+05B0", "U+05B1",
      "U+05B2", "U+05B3", "U+05B4", "U+05B5", "U+05B6", "U+05B7", "U+05B8",
      "U+05B9", "U+05BA", "U+05BB", "U+05BC", "U+05BD", "U+05BE", "U+05BF",
      "U+05C0", "U+05C1", "U+05C2", "U+05C3", "U+05C4", "U+05C5", "U+05C6",
      "U+05C7", "U+05C8", "U+05C9", "U+05CA", "U+05CB", "U+05CC", "U+05CD",
      "U+05CE", "U+05CF", "U+05D0", "U+05D1", "U+05D2", "U+05D3", "U+05D4",
      "U+05D5", "U+05D6", "U+05D7", "U+05D8", "U+05D9", "U+05DA", "U+05DB",
      "U+05DC", "U+05DD", "U+05DE", "U+05DF", "U+05E0", "U+05E1", "U+05E2",
      "U+05E3", "U+05E4", "U+05E5", "U+05E6", "U+05E7", "U+05E8", "U+05E9",
      "U+05EA", "U+05EB", "U+05EC", "U+05ED", "U+05EE", "U+05EF", "U+05F0",
      "U+05F1", "U+05F2", "U+05F3", "U+05F4", "U+05F5", "U+05F6", "U+05F7",
      "U+05F8", "U+05F9", "U+05FA", "U+05FB", "U+05FC", "U+05FD", "U+05FE",
      "U+05FF", "U+0600", "U+0601", "U+0602", "U+0603", "U+0604", "U+0605",
      "U+0606", "U+0607", "U+0608", "U+0609", "U+060A", "U+060B", "U+060C",
      "U+060D", "U+060E", "U+060F", "U+0610", "U+0611", "U+0612", "U+0613",
      "U+0614", "U+0615", "U+0616", "U+0617", "U+0618", "U+0619", "U+061A",
      "U+061B", "U+061C", "U+061D", "U+061E", "U+061F", "U+0620", "U+0621",
      "U+0622", "U+0623", "U+0624", "U+0625", "U+0626", "U+0627", "U+0628",
      "U+0629", "U+062A", "U+062B", "U+062C", "U+062D", "U+062E", "U+062F",
      "U+0630", "U+0631", "U+0632", "U+0633", "U+0634", "U+0635", "U+0636",
      "U+0637", "U+0638", "U+0639", "U+063A", "U+063B", "U+063C", "U+063D",
      "U+063E", "U+063F", "U+0640", "U+0641", "U+0642", "U+0643", "U+0644",
      "U+0645", "U+0646", "U+0647", "U+0648", "U+0649", "U+064A", "U+064B",
      "U+064C", "U+064D", "U+064E", "U+064F", "U+0650", "U+0651", "U+0652",
      "U+0653", "U+0654", "U+0655", "U+0656", "U+0657", "U+0658", "U+0659",
      "U+065A", "U+065B", "U+065C", "U+065D", "U+065E", "U+065F", "U+0660",
      "U+0661", "U+0662", "U+0663", "U+0664", "U+0665", "U+0666", "U+0667",
      "U+0668", "U+0669", "U+066A", "U+066B", "U+066C", "U+066D", "U+066E",
      "U+066F", "U+0670", "U+0671", "U+0672", "U+0673", "U+0674", "U+0675",
      "U+0676", "U+0677", "U+0678", "U+0679", "U+067A", "U+067B", "U+067C",
      "U+067D", "U+067E", "U+067F", "U+0680", "U+0681", "U+0682", "U+0683",
      "U+0684", "U+0685", "U+0686", "U+0687", "U+0688", "U+0689", "U+068A",
      "U+068B", "U+068C", "U+068D", "U+068E", "U+068F", "U+0690", "U+0691",
      "U+0692", "U+0693", "U+0694", "U+0695", "U+0696", "U+0697", "U+0698",
      "U+0699", "U+069A", "U+069B", "U+069C", "U+069D", "U+069E", "U+069F",
      "U+06A0", "U+06A1", "U+06A2", "U+06A3", "U+06A4", "U+06A5", "U+06A6",
      "U+06A7", "U+06A8", "U+06A9", "U+06AA", "U+06AB", "U+06AC", "U+06AD",
      "U+06AE", "U+06AF", "U+06B0", "U+06B1", "U+06B2", "U+06B3", "U+06B4",
      "U+06B5", "U+06B6", "U+06B7", "U+06B8", "U+06B9", "U+06BA", "U+06BB",
      "U+06BC", "U+06BD", "U+06BE", "U+06BF", "U+06C0", "U+06C1", "U+06C2",
      "U+06C3", "U+06C4", "U+06C5", "U+06C6", "U+06C7", "U+06C8", "U+06C9",
      "U+06CA", "U+06CB", "U+06CC", "U+06CD", "U+06CE", "U+06CF", "U+06D0",
      "U+06D1", "U+06D2", "U+06D3", "U+06D4", "U+06D5", "U+06D6", "U+06D7",
      "U+06D8", "U+06D9", "U+06DA", "U+06DB", "U+06DC", "U+06DD", "U+06DE",
      "U+06DF", "U+06E0", "U+06E1", "U+06E2", "U+06E3", "U+06E4", "U+06E5",
      "U+06E6", "U+06E7", "U+06E8", "U+06E9", "U+06EA", "U+06EB", "U+06EC",
      "U+06ED", "U+06EE", "U+06EF", "U+06F0", "U+06F1", "U+06F2", "U+06F3",
      "U+06F4", "U+06F5", "U+06F6", "U+06F7", "U+06F8", "U+06F9", "U+06FA",
      "U+06FB", "U+06FC", "U+06FD", "U+06FE", "U+06FF", "U+0700", "U+0701",
      "U+0702", "U+0703", "U+0704", "U+0705", "U+0706", "U+0707", "U+0708",
      "U+0709", "U+070A", "U+070B", "U+070C", "U+070D", "U+070E", "U+070F",
      "U+0710", "U+0711", "U+0712", "U+0713", "U+0714", "U+0715", "U+0716",
      "U+0717", "U+0718", "U+0719", "U+071A", "U+071B", "U+071C", "U+071D",
      "U+071E", "U+071F", "U+0720", "U+0721", "U+0722", "U+0723", "U+0724",
      "U+0725", "U+0726", "U+0727", "U+0728", "U+0729", "U+072A", "U+072B",
      "U+072C", "U+072D", "U+072E", "U+072F", "U+0730", "U+0731", "U+0732",
      "U+0733", "U+0734", "U+0735", "U+0736", "U+0737", "U+0738", "U+0739",
      "U+073A", "U+073B", "U+073C", "U+073D", "U+073E", "U+073F", "U+0740",
      "U+0741", "U+0742", "U+0743", "U+0744", "U+0745", "U+0746", "U+0747",
      "U+0748", "U+0749", "U+074A", "U+074B", "U+074C", "U+074D", "U+074E",
      "U+074F", "U+0750", "U+0751", "U+0752", "U+0753", "U+0754", "U+0755",
      "U+0756", "U+0757", "U+0758", "U+0759", "U+075A", "U+075B", "U+075C",
      "U+075D", "U+075E", "U+075F", "U+0760", "U+0761", "U+0762", "U+0763",
      "U+0764", "U+0765", "U+0766", "U+0767", "U+0768", "U+0769", "U+076A",
      "U+076B", "U+076C", "U+076D", "U+076E", "U+076F", "U+0770", "U+0771",
      "U+0772", "U+0773", "U+0774", "U+0775", "U+0776", "U+0777", "U+0778",
      "U+0779", "U+077A", "U+077B", "U+077C", "U+077D", "U+077E", "U+077F",
      "U+0780", "U+0781", "U+0782", "U+0783", "U+0784", "U+0785", "U+0786",
      "U+0787", "U+0788", "U+0789", "U+078A", "U+078B", "U+078C", "U+078D",
      "U+078E", "U+078F", "U+0790", "U+0791", "U+0792", "U+0793", "U+0794",
      "U+0795", "U+0796", "U+0797", "U+0798", "U+0799", "U+079A", "U+079B",
      "U+079C", "U+079D", "U+079E", "U+079F", "U+07A0", "U+07A1", "U+07A2",
      "U+07A3", "U+07A4", "U+07A5", "U+07A6", "U+07A7", "U+07A8", "U+07A9",
      "U+07AA", "U+07AB", "U+07AC", "U+07AD", "U+07AE", "U+07AF", "U+07B0",
      "U+07B1", "U+07B2", "U+07B3", "U+07B4", "U+07B5", "U+07B6", "U+07B7",
      "U+07B8", "U+07B9", "U+07BA", "U+07BB", "U+07BC", "U+07BD", "U+07BE",
      "U+07BF", "U+07C0", "U+07C1", "U+07C2", "U+07C3", "U+07C4", "U+07C5",
      "U+07C6", "U+07C7", "U+07C8", "U+07C9", "U+07CA", "U+07CB", "U+07CC",
      "U+07CD", "U+07CE", "U+07CF", "U+07D0", "U+07D1", "U+07D2", "U+07D3",
      "U+07D4", "U+07D5", "U+07D6", "U+07D7", "U+07D8", "U+07D9", "U+07DA",
      "U+07DB", "U+07DC", "U+07DD", "U+07DE", "U+07DF", "U+07E0", "U+07E1",
      "U+07E2", "U+07E3", "U+07E4", "U+07E5", "U+07E6", "U+07E7", "U+07E8",
      "U+07E9", "U+07EA", "U+07EB", "U+07EC", "U+07ED", "U+07EE", "U+07EF",
      "U+07F0", "U+07F1", "U+07F2", "U+07F3", "U+07F4", "U+07F5", "U+07F6",
      "U+07F7", "U+07F8", "U+07F9", "U+07FA", "U+07FB", "U+07FC", "U+07FD",
      "U+07FE", "U+07FF">>

TwoBytePoints == Range(TwoByteCodes)

(* The letter unicode.ToLower gives for each capital letter.               *)
LowerOf ==
    [c \in Range(UpperLetters) \cup Range(UpperPoints) |->
        IF c \in Range(UpperLetters)
        THEN LowerLetters[CHOOSE i \in 1..26 : UpperLetters[i] = c]
        ELSE LowerPoints[CHOOSE i \in DOMAIN UpperPoints : UpperPoints[i] = c]]

Capitals == DOMAIN LowerOf

(* unicode.ToLower *)
ToLowerChar(c) == IF c \in Capitals THEN LowerOf[c] ELSE c

(* The characters the flag (?i) of package regexp lets a character stand   *)
(* for: the orbit of unicode.SimpleFold, in which k has the kelvin sign    *)
(* and s the long s beside their capitals.                                 *)
SimpleFoldOrbit(c) ==
    IF c \in {"k", "K", "U+212A"} THEN {"k", "K", "U+212A"}
    ELSE IF c \in {"s", "S", "U+017F"} THEN {"s", "S", "U+017F"}
    ELSE IF c \in Range(LowerLetters)
    THEN {c, UpperLetters[CHOOSE i \in 1..26 : LowerLetters[i] = c]}
    ELSE IF c \in Range(UpperLetters)
    THEN {c, LowerLetters[CHOOSE i \in 1..26 : UpperLetters[i] = c]}
    ELSE {c}

(* A character class under the flag (?i).                                  *)
FoldClass(cs) == UNION {SimpleFoldOrbit(c) : c \in cs}

ToUpperChar(c) ==
    IF c \in Range(LowerLetters)
    THEN UpperLetters[CHOOSE i \in 1..26 : LowerLetters[i] = c]
    ELSE c

(* strings.ToLower *)
ToLower(s) == [i \in 1..Len(s) |-> ToLowerChar(s[i])]

(* strings.HasPrefix, strings.HasSuffix *)
HasPrefix(s, prefix) ==
    Len(s) >= Len(prefix) /\ SubSeq(s, 1, Len(prefix)) = prefix

HasSuffix(s, suffix) ==
    Len(s) >= Len(suffix) /\ SubSeq(s, Len(s) - Len(suffix) + 1, Len(s)) = suffix

(* strings.TrimPrefix, strings.TrimSuffix *)
TrimPrefix(s, prefix) ==
    IF HasPrefix(s, prefix) THEN SubSeq(s, Len(prefix) + 1, Len(s)) ELSE s

TrimSuffix(s, suffix) ==
    IF HasSuffix(s, suffix) THEN SubSeq(s, 1, Len(s) - Len(suffix)) ELSE s

(* strings.Join(elems, sep) *)
RECURSIVE Join(_, _)
Join(elems, sep) ==
    IF elems = <<>> THEN <<>>
    ELSE IF Len(elems) = 1 THEN elems[1]
    ELSE elems[1] \o sep \o Join(Tail(elems), sep)

(* strings.Contains *)
Contains(s, sub) ==
    \E i \in 0..(Len(s) - Len(sub)) : SubSeq(s, i + 1, i + Len(sub)) = sub

(* ---------------------------- regexp ----------------------------------- *)

(* A compiled regular expression is its syntax tree.                       *)
ReSet(cs) == [t |-> "set", cs |-> cs]
ReNot(cs) == [t |-> "not", cs |-> cs]
ReCat(a, b) == [t |-> "cat", a |-> a, b |-> b]
ReAlt(a, b) == [t |-> "alt", a |-> a, b |-> b]
ReStar(a) == [t |-> "star", a |-> a]
ReOpt(a) == [t |-> "opt", a |-> a]
ReWordBoundary == [t |-> "wb"]
ReEmpty == [t |-> "empty"]
RePlus(a) == ReCat(a, ReStar(a))

(* A literal, and a literal under the flag (?i).                           *)
RECURSIVE ReLit(_)
ReLit(s) ==
    IF s = <<>> THEN ReEmpty ELSE ReCat(ReSet({Head(s)}), ReLit(Tail(s)))

RECURSIVE ReLitFold(_)
ReLitFold(s) ==
    IF s = <<>> THEN ReEmpty
    ELSE ReCat(ReSet(SimpleFoldOrbit(Head(s))), ReLitFold(Tail(s)))

(* a1|a2|..., a1 a2 ..., and a{n,}                                         *)
RECURSIVE ReAlts(_)
ReAlts(as) == IF Len(as) = 1 THEN as[1] ELSE ReAlt(as[1], ReAlts(Tail(as)))

RECURSIVE ReCats(_)
ReCats(as) == IF as = <<>> THEN ReEmpty ELSE ReCat(as[1], ReCats(Tail(as)))

RECURSIVE ReAtLeast(_, _)
ReAtLeast(a, n) == IF n = 0 THEN ReStar(a) ELSE ReCat(a, ReAtLeast(a, n - 1))

(* \b between s[i] and s[i+1]: exactly one side is a word character.       *)
IsWordAt(s, i) == i >= 1 /\ i <= Len(s) /\ s[i] \in WordChars

AtWordBoundary(s, i) == IsWordAt(s, i) # IsWordAt(s, i + 1)

(* The positions where a match of re that starts after the first i         *)
(* characters of s can end, in the order the leftmost-first (greedy)       *)
(* search of package regexp prefers them.                                  *)
RECURSIVE Ends(_, _, _)
RECURSIVE EndsFrom(_, _, _)
Ends(re, s, i) ==
    CASE re.t = "set" ->
            IF i < Len(s) /\ s[i + 1] \in re.cs THEN <<i + 1>> ELSE <<>>
      [] re.t = "not" ->
            IF i < Len(s) /\ s[i + 1] \notin re.cs THEN <<i + 1>> ELSE <<>>
      [] re.t = "cat" -> EndsFrom(re.b, s, Ends(re.a, s, i))
      [] re.t = "alt" -> Ends(re.a, s, i) \o Ends(re.b, s, i)
      [] re.t = "star" ->
            EndsFrom(re, s, SelectSeq(Ends(re.a, s, i), LAMBDA j : j > i)) \o <<i>>
      [] re.t = "opt" -> Ends(re.a, s, i) \o <<i>>
      [] re.t = "wb" -> IF AtWordBoundary(s, i) THEN <<i>> ELSE <<>>
      [] re.t = "empty" -> <<i>>

EndsFrom(re, s, js) ==
    IF js = <<>> THEN <<>>
    ELSE Ends(re, s, Head(js)) \o EndsFrom(re, s, Tail(js))

(* Regexp.MatchString *)
MatchString(re, s) == \E i \in 0..Len(s) : Ends(re, s, i) # <<>>

(* The preferred match of the expression "keep drop" starting after the    *)
(* first i characters: <<end of keep, end of drop>>, or <<>> without one.  *)
RECURSIVE FirstOf(_, _, _)
FirstOf(drop, s, js) ==
    IF js = <<>> THEN <<>>
    ELSE IF Ends(drop, s, Head(js)) # <<>>
         THEN <<Head(js), Head(Ends(drop, s, Head(js)))>>
         ELSE FirstOf(drop, s, Tail(js))

FindAt(keep, drop, s, i) == FirstOf(drop, s, Ends(keep, s, i))

(* Regexp.ReplaceAllString for    an expression "keep drop" and a template *)
(* that copies the text of keep and puts repl for the text of drop; the    *)
(* matches are the leftmost ones and do not overlap.                       *)
RECURSIVE ReplaceFrom(_, _, _, _, _)
ReplaceFrom(keep, drop, s, repl, i) ==
    IF i >= Len(s) THEN <<>>
    ELSE LET m == FindAt(keep, drop, s, i)
         IN IF m # <<>> /\ m[2] > i
            THEN SubSeq(s, i + 1, m[1]) \o repl \o ReplaceFrom(keep, drop, s, repl, m[2])
            ELSE <<s[i + 1]>> \o ReplaceFrom(keep, drop, s, repl, i + 1)

ReplaceAllString(keep, drop, s, repl) == ReplaceFrom(keep, drop, s, repl, 0)

(* ---------------------------- redaction ------------------------------- *)

(* secretKVPattern, split where its template "${1}${2}[REDACTED]" stops    *)
(* copying: groups 1 and 2 are kept, group 3 is replaced.                  *)
secretKVKeep ==
    ReCats(<<ReWordBoundary,
             ReAlts(<<ReLitFold(<<"t", "o", "k", "e", "n">>),
                      ReLitFold(<<"s", "e", "c", "r", "e", "t">>),
                      ReLitFold(<<"p", "a", "s", "s", "w", "o", "r", "d">>),
                      ReCats(<<ReLitFold(<<"a", "p", "i">>), ReOpt(ReSet({"_", "-"})),
                               ReLitFold(<<"k", "e", "y">>)>>),
                      ReLitFold(<<"a", "u", "t", "h", "o", "r", "i", "z", "a", "t", "i", "o", "n">>)>>),
             ReWordBoundary,
             ReStar(ReSet(Whitespace)), ReSet({":", "="}), ReStar(ReSet(Whitespace))>>)

secretKVDrop == RePlus(ReNot(Whitespace \cup {",", ";"}))

(* bearerPattern: (?i)\bbearer\s+([a-z0-9\._\-]+)                          *)
bearerPattern ==
    ReCats(<<ReWordBoundary, ReLitFold(<<"b", "e", "a", "r", "e", "r">>),
             RePlus(ReSet(Whitespace)),
             RePlus(ReSet(FoldClass(Range(LowerLetters) \cup Digits \cup {".", "_", "-"})))>>)

(* ghTokenPattern: \b(gh[pousr]_[A-Za-z0-9]{20,})\b                        *)
GhTokenMin == 20

ghTokenPattern ==
    ReCats(<<ReWordBoundary, ReLit(<<"g", "h">>), ReSet({"p", "o", "u", "s", "r"}),
             ReSet({"_"}), ReAtLeast(ReSet(Letters \cup Digits), GhTokenMin),
             ReWordBoundary>>)

Redacted == <<"[", "R", "E", "D", "A", "C", "T", "E", "D", "]">>
BearerRedacted == <<"B", "e", "a", "r", "e", "r", " ", "[", "R", "E", "D", "A", "C", "T", "E", "D", "]">>
RedactedGithubToken == <<"[", "R", "E", "D", "A", "C", "T", "E", "D", "_", "G", "I", "T", "H", "U", "B", "_", "T", "O", "K", "E", "N", "]">>

(* RedactString: the three replacements, each on the result of the one     *)
(* before.                                                                 *)
RedactString(input) ==
    LET out1 == ReplaceAllString(secretKVKeep, secretKVDrop, input, Redacted)
        out2 == ReplaceAllString(ReEmpty, bearerPattern, out1, BearerRedacted)
    IN ReplaceAllString(ReEmpty, ghTokenPattern, out2, RedactedGithubToken)

(* A RedactString call.                                                    *)
RedactCall ==
    /\ redactOut = NotRedacted
    /\ redactOut' = RedactString(redactIn)
    /\ UNCHANGED redactIn

(* The tokens: the strings of at most MaxTokenLen characters that occur    *)
(* nowhere in the texts around them; the long s is one of the characters   *)
(* that the class of bearerPattern holds under (?i).                       *)
TokenChars == {"x", "Y", "7", "U+017F"}

Tokens == UNION {[1..n -> TokenChars] : n \in 1..MaxTokenLen}

AuthorizationBearer == <<"A", "u", "t", "h", "o", "r", "i", "z", "a", "t", "i", "o", "n", ":", " ", "B", "e", "a", "r", "e", "r", " ">>

RedactPrefixes ==
    {AuthorizationBearer,
     <<"B", "e", "a", "r", "e", "r", " ">>,
     <<"t", "o", "k", "e", "n", "=">>,
     <<"t", "o", "U+212A", "e", "n", "=">>,
     <<"t", "h", "e", " ", "p", "a", "s", "s", "w", "o", "r", "d", " ", "i", "s", " ">>}

RedactInputs == {prefix \o token : prefix \in RedactPrefixes, token \in Tokens}

InitRedact ==
    /\ InitApprovals
    /\ goos = "linux"
    /\ LockIdle
    /\ redactIn \in RedactInputs
    /\ redactOut = NotRedacted
    /\ RunlogIdle
    /\ PolicyIdle
    /\ WebIdle

exceptRedact == <<approvalVars, lockVars, runlogVars, policyVars, webVars>>

NextRedact == RedactCall /\ UNCHANGED exceptRedact

SpecRedact == InitRedact /\ [][NextRedact]_vars

(* ---------------------------- run log: values ------------------------- *)

(* A payload value is a Go value with its dynamic type.  A string is its   *)
(* characters v, repeated times times (strings.Repeat), so that a value    *)
(* longer than a scanner buffer can be written down.                       *)
GoString(chars) == [t |-> "string", v |-> chars, times |-> 1]
GoStrings(elems) == [t |-> "[]string", v |-> elems]
GoMap(payload) == [t |-> "map[string]interface{}", v |-> payload]
GoSlice(elems) == [t |-> "[]interface{}", v |-> elems]
GoInt(n) == [t |-> "int", v |-> n]
(* A value of a type declared as string, such as approvals.Status.         *)
GoNamed(chars) == [t |-> "named string", v |-> chars, times |-> 1]
GoFloat(n) == [t |-> "float64", v |-> n]
GoFunc == [t |-> "func"]
GoNil == [t |-> "nil"]

(* strings.Repeat("x", n): no pattern of RedactString matches inside it.   *)
XRun(n) == [t |-> "string", v |-> <<"x">>, times |-> n]

RedactText(sv) ==
    IF sv.times = 1 THEN [sv EXCEPT !.v = RedactString(sv.v)] ELSE sv

(* RedactPayload: the cases of its type switch.                            *)
RECURSIVE RedactPayload(_)
RedactPayload(payload) ==
    IF payload = Nil THEN Nil
    ELSE LET m == payload[1]
         IN <<[k \in DOMAIN m |->
                CASE m[k].t = "string" -> RedactText(m[k])
                  [] m[k].t = "[]string" ->
                        [m[k] EXCEPT !.v = [i \in DOMAIN m[k].v |-> RedactText(m[k].v[i])]]
                  [] m[k].t = "map[string]interface{}" ->
                        [m[k] EXCEPT !.v = RedactPayload(m[k].v)]
                  [] OTHER -> m[k]]>>

(* encoding/json: the JSON text of a Go value, as a tree.                  *)
RECURSIVE MarshalValue(_)
MarshalValue(x) ==
    CASE x.t = "string" -> [j |-> "string", v |-> x.v, times |-> x.times]
      [] x.t = "named string" -> [j |-> "string", v |-> x.v, times |-> x.times]
      [] x.t = "[]string" ->
            [j |-> "array", v |-> [i \in DOMAIN x.v |-> MarshalValue(x.v[i])]]
      [] x.t = "[]interface{}" ->
            [j |-> "array", v |-> [i \in DOMAIN x.v |-> MarshalValue(x.v[i])]]
      [] x.t = "map[string]interface{}" ->
            IF x.v = Nil THEN [j |-> "null"]
            ELSE [j |-> "object", v |-> [k \in DOMAIN x.v[1] |-> MarshalValue(x.v[1][k])]]
      [] x.t \in {"int", "float64"} -> [j |-> "number", v |-> x.v]
      [] x.t = "nil" -> [j |-> "null"]

(* json.Marshal returns an UnsupportedTypeError for a func value.          *)
RECURSIVE MarshalFails(_)
MarshalFails(x) ==
    CASE x.t = "func" -> TRUE
      [] x.t = "[]interface{}" -> \E i \in DOMAIN x.v : MarshalFails(x.v[i])
      [] x.t = "map[string]interface{}" ->
            x.v # Nil /\ \E k \in DOMAIN x.v[1] : MarshalFails(x.v[1][k])
      [] OTHER -> FALSE

(* json.Unmarshal into interface{}: arrays become []interface{}, numbers   *)
(* float64, objects map[string]interface{}.                                *)
RECURSIVE UnmarshalValue(_)
UnmarshalValue(y) ==
    CASE y.j = "string" -> [t |-> "string", v |-> y.v, times |-> y.times]
      [] y.j = "array" -> GoSlice([i \in DOMAIN y.v |-> UnmarshalValue(y.v[i])])
      [] y.j = "object" -> GoMap(<<[k \in DOMAIN y.v |-> UnmarshalValue(y.v[k])]>>)
      [] y.j = "number" -> GoFloat(y.v)
      [] y.j = "null" -> GoNil

(* The struct tags of Event: omitempty leaves out an empty string, a zero  *)
(* int and a nil or empty map.                                             *)
OmitEmptyEvent(k, v) ==
    CASE k \in {"tenant_id", "agent_id", "state", "policy_decision"} -> v = <<>>
      [] k = "attempt" -> v = 0
      [] k = "payload" -> v = Nil \/ DOMAIN v[1] = {}
      [] OTHER -> FALSE

MarshalEvent(e) ==
    LET full == [event_id |-> e.EventID, run_id |-> e.RunID,
                 tenant_id |-> e.TenantID, agent_id |-> e.AgentID,
                 state |-> e.State, policy_decision |-> e.PolicyDecision,
                 attempt |-> e.Attempt, event_type |-> e.EventType,
                 payload |-> e.Payload, timestamp |-> e.Timestamp]
        kept == {k \in DOMAIN full : ~OmitEmptyEvent(k, full[k])}
    IN [k \in kept |->
            IF k = "payload" THEN MarshalValue(GoMap(full[k])) ELSE full[k]]

UnmarshalEvent(j) ==
    [EventID |-> Field(j, "event_id", <<>>), RunID |-> Field(j, "run_id", <<>>),
     TenantID |-> Field(j, "tenant_id", <<>>), AgentID |-> Field(j, "agent_id", <<>>),
     State |-> Field(j, "state", <<>>),
     PolicyDecision |-> Field(j, "policy_decision", <<>>),
     Attempt |-> Field(j, "attempt", 0), EventType |-> Field(j, "event_type", <<>>),
     Payload |-> IF "payload" \in DOMAIN j THEN UnmarshalValue(j.payload).v ELSE Nil,
     Timestamp |-> Field(j, "timestamp", ZeroTime)]

(* bufio.MaxScanTokenSize: a Scanner gives up on a line that does not fit  *)
(* its buffer.                                                             *)
MaxScanTokenSize == 65536

(* The bytes json.Marshal writes for one character of a string: a quote, a *)
(* backslash, a newline, a carriage return and a tab take two, "<", ">",   *)
(* "&", the other control characters and the two Unicode line separators   *)
(* the six of a \u escape, and every other character its UTF-8 bytes: one  *)
(* below U+0080, two below U+0800, three below U+10000 and four from there *)
(* on.  An element of several plain characters counts each of them; the    *)
(* runs that are as long as a code point is written are those of           *)
(* PlainRuns.  The form feed and the backspace, whose escapes differ       *)
(* between releases of encoding/json, are in no event here.                *)
PlainRuns ==
    {"approved", "denied", "evt-old", "executed", "executor", "expired",
     "git push", "operator", "pending", "sha256", "system", "until-1"}

SixByteEscapes ==
    {"<", ">", "&", "U+2028", "U+2029"}
    \cup (Range(ControlCodes) \ {"\t", "\n", "\f", "\r", "U+0008"})

CharBytes(c) ==
    IF c \in {"\"", "\\", "\n", "\r", "\t"} THEN 2
    ELSE IF c \in SixByteEscapes THEN 6
    ELSE IF c \in {Delete, GraveAccent} THEN 1
    ELSE IF Len(c) < 6 \/ Len(c) > 8 \/ c \in PlainRuns
    THEN CASE c # "\f" -> Len(c)
    ELSE IF c \in TwoBytePoints THEN 2
    ELSE CASE Len(c) = 6 /\ c # "U+0008" -> 3
           [] Len(c) > 6 -> 4

(* The bytes of the characters from the i-th on.                           *)
RECURSIVE BytesFrom(_, _)
BytesFrom(chars, i) ==
    IF i > Len(chars) THEN 0 ELSE CharBytes(chars[i]) + BytesFrom(chars, i + 1)

TextBytes(chars) == BytesFrom(chars, 1)

(* The digits of an integer, with its sign.                                *)
RECURSIVE NumberLen(_)
NumberLen(n) ==
    IF n < 0 THEN 1 + NumberLen(0 - n)
    ELSE IF n < 10 THEN 1
    ELSE 1 + NumberLen(n \div 10)

(* The number of bytes of the JSON text of a value: the quotes of a        *)
(* string, the brackets and commas of an array, the braces and commas of   *)
(* an object and the quotes and the colon of each of its keys.             *)
RECURSIVE SumLen(_, _, _)
RECURSIVE JSONLen(_)
SumLen(f, ks, keyed) ==
    IF ks = {} THEN 0
    ELSE LET k == CHOOSE x \in ks : TRUE
         IN (IF keyed THEN Len(k) + 3 ELSE 0) + JSONLen(f[k]) + SumLen(f, ks \ {k}, keyed)

JSONLen(y) ==
    CASE y.j = "string" -> 2 + TextBytes(y.v) * y.times
      [] y.j = "array" ->
            2 + SumLen(y.v, DOMAIN y.v, FALSE)
              + (IF DOMAIN y.v = {} THEN 0 ELSE Cardinality(DOMAIN y.v) - 1)
      [] y.j = "object" ->
            2 + SumLen(y.v, DOMAIN y.v, TRUE)
              + (IF DOMAIN y.v = {} THEN 0 ELSE Cardinality(DOMAIN y.v) - 1)
      [] y.j = "number" -> NumberLen(y.v)
      [] y.j = "null" -> 4

(* The file is the sequence of the texts written to it.  Write may take    *)
(* one system call for the JSON text of an event and its newline ("all"),  *)
(* or, after a short write, two: the text without its end ("head"), then   *)
(* the end and the newline ("tail"), which together are the same bytes as  *)
(* the whole text.  A "head" stays in the file where the writer died       *)
(* before the second call, a "tail" where a file lost its beginning.  frac *)
(* is the number of digits the text shows behind the second of the event's *)
(* time.                                                                   *)

(* The digits behind the second in the text of a time: time.Time is        *)
(* marshalled in the layout RFC3339Nano, which drops the zeros at the end  *)
(* of the nanoseconds, so that a whole second shows none and every other   *)
(* time from one digit to nine.                                            *)
Fractions == 0..9

(* The numbers of digits that the specifications draw from, as they draw   *)
(* their clock readings: none, one, and those of a whole number of milli-, *)
(* micro- and nanoseconds for one caller; none, the fewest and the most    *)
(* for two callers; the shortest and the longest text in the handlers.     *)
(* The files found on disk are appended to with every number of digits.    *)
SeqFractions == {0, 1, 3, 6, 9}
ConcFractions == {0, 1, 9}
HandlerFractions == {0, 9}

(* The whole seconds among the times here: the time that callers give with *)
(* a payload and that the lines of the files found on disk have.  Every    *)
(* other time, a reading of the clock or a time from a caller, shows       *)
(* digits or none.                                                         *)
WholeSeconds == {1}

(* The characters of a time in UTC: the 20 of the date, the time and the   *)
(* "Z", and the point and the digits behind the second.                    *)
TimeLen(frac) == 20 + (IF frac = 0 THEN 0 ELSE 1 + frac)

(* The digits behind the second that the lines of a file show for a time.  *)
FracOf(f, t) == {f.lines[i].frac : i \in {k \in DOMAIN f.lines : f.lines[k].json.timestamp = t}}

(* The digits behind the second that a line written to a file can show for *)
(* a time.  A time has one text: a whole second shows none, a time that    *)
(* the file holds already shows the same again, and every other time is    *)
(* free.                                                                   *)
FracChoices(f, t) ==
    IF t \in WholeSeconds THEN {0}
    ELSE IF FracOf(f, t) # {} THEN FracOf(f, t)
    ELSE Fractions

(* The bytes of one field of an event in the text json.Marshal makes of    *)
(* it: the key between quotes, the colon and the value.                    *)
FieldLen(json, k, frac) ==
    IF k \notin DOMAIN json THEN 0
    ELSE Len(k) + 3 + (CASE k = "payload" -> JSONLen(json[k])
                         [] k = "attempt" -> NumberLen(json[k])
                         [] k = "timestamp" -> 2 + TimeLen(frac)
                         [] OTHER -> 2 + TextBytes(json[k]))

(* The number of bytes of the line json.Marshal makes of an event, without *)
(* its newline: the braces, the fields and the commas between them.        *)
TextLen(json, frac) ==
    2 + FieldLen(json, "event_id", frac) + FieldLen(json, "run_id", frac)
      + FieldLen(json, "tenant_id", frac) + FieldLen(json, "agent_id", frac)
      + FieldLen(json, "state", frac) + FieldLen(json, "policy_decision", frac)
      + FieldLen(json, "attempt", frac) + FieldLen(json, "event_type", frac)
      + FieldLen(json, "payload", frac) + FieldLen(json, "timestamp", frac)
      + Cardinality(DOMAIN json) - 1

(* The bytes that a write adds to the line it falls in: the text, the text *)
(* without its last byte, or that byte.                                    *)
WriteLen(part, json, frac) ==
    CASE part = "all" -> TextLen(json, frac)
      [] part = "head" -> TextLen(json, frac) - 1
      [] part = "tail" -> 1

(* A write, with the number of its bytes.                                  *)
Write(part, json, frac) ==
    [part |-> part, json |-> json, frac |-> frac, len |-> WriteLen(part, json, frac)]

Line(json, frac) == Write("all", json, frac)
LineHead(json, frac) == Write("head", json, frac)
LineTail(json, frac) == Write("tail", json, frac)

(* The lines a Scanner splits the file into: a line is ok when it is the   *)
(* whole text of one event, and then json is that text; len is the number  *)
(* of its bytes before the newline.  open is the text since the last       *)
(* newline.                                                                *)
NoOpenLine == [any |-> FALSE, ok |-> FALSE, json |-> <<>>, len |-> 0]

RECURSIVE ScannerLines(_, _)
ScannerLines(writes, open) ==
    IF writes = <<>>
    THEN IF open.any THEN <<[ok |-> FALSE, json |-> <<>>, len |-> open.len]>> ELSE <<>>
    ELSE LET w == Head(writes)
             len == open.len + w.len
         IN CASE w.part = "head" ->
                    ScannerLines(Tail(writes),
                                 [any |-> TRUE, ok |-> ~open.any, json |-> w.json, len |-> len])
              [] w.part = "tail" ->
                    <<[ok |-> open.any /\ open.ok /\ open.json = w.json,
                       json |-> w.json, len |-> len]>>
                        \o ScannerLines(Tail(writes), NoOpenLine)
              [] w.part = "all" ->
                    <<[ok |-> ~open.any, json |-> w.json, len |-> len]>>
                        \o ScannerLines(Tail(writes), NoOpenLine)

FileLines(f) == ScannerLines(f.lines, NoOpenLine)

(* A line is returned when it and its newline fit the buffer.              *)
TooLong(line) == line.len >= MaxScanTokenSize

(* time.Time.Before *)
Before(t, u) == t < u

EventLess(a, b) == Before(a.Timestamp, b.Timestamp)

RECURSIVE InsertEvent(_, _)
InsertEvent(x, s) ==
    IF s = <<>> THEN <<x>>
    ELSE IF EventLess(x, Head(s)) THEN <<x>> \o s
    ELSE <<Head(s)>> \o InsertEvent(x, Tail(s))

(* sort.SliceStable(out, ...) in ReadRun.                                  *)
RECURSIVE SortEvents(_)
SortEvents(s) ==
    IF s = <<>> THEN <<>>
    ELSE InsertEvent(s[Len(s)], SortEvents(SubSeq(s, 1, Len(s) - 1)))

(* The scanner loop of ReadRun: a line that does not parse is skipped, an  *)
(* event of the run is redacted and collected.                             *)
RECURSIVE ScanLines(_, _)
ScanLines(lines, runID) ==
    IF lines = <<>> THEN <<>>
    ELSE LET line == Head(lines)
             evt == UnmarshalEvent(line.json)
         IN IF line.ok /\ evt.RunID = runID
            THEN <<[evt EXCEPT !.Payload = RedactPayload(evt.Payload)]>>
                     \o ScanLines(Tail(lines), runID)
            ELSE ScanLines(Tail(lines), runID)

(* ReadRun under the lock: scanner.Err() is ErrTooLong when a line did not *)
(* fit the buffer, and ReadRun returns it.                                 *)
ReadRunResult(f, runID) ==
    IF \E i \in 1..Len(FileLines(f)) : TooLong(FileLines(f)[i])
    THEN RlFail("bufio.Scanner: token too long")
    ELSE RlOk(SortEvents(ScanLines(FileLines(f), runID)))

(* ---------------------------- run log: operations --------------------- *)

(* A caller that is not inside a run log operation starts one.             *)
RlBegin(p, c) ==
    /\ rlpc[p] = "idle"
    /\ p = "p2" => rlpc["p1"] # "idle"
    /\ rlnCalls < MaxLogCalls
    /\ rlnCalls' = rlnCalls + 1
    /\ rlcall' = [rlcall EXCEPT ![p] = c]

EventID(n) == <<"evt-", "000000000", DigitChars[n + 1]>>

(* Append up to its lock: the two checks, the defaults and the redaction.  *)
RunIDIsBlank_NoTrim(evt) == evt.RunID = <<>>

RunIDIsBlank(evt) == TrimSpace(evt.RunID) = <<>>

EventTypeIsBlank(evt) == TrimSpace(evt.EventType) = <<>>

PrepareEvent(evt, n, t) ==
    [evt EXCEPT !.Timestamp = IF IsZero(evt.Timestamp) THEN t ELSE @,
                !.EventID = IF evt.EventID = <<>> THEN EventID(n) ELSE @,
                !.Payload = RedactPayload(evt.Payload)]

(* The Append calls that have not yet written or failed.                   *)
Appending == {q \in Procs : rlcall[q].op = "Append" /\ rlpc[q] \in {"lock", "write"}}

(* The events written, whole or in two parts.                              *)
Written(f) == SelectSeq(f.lines, LAMBDA w : w.part # "head")


AppendEvent(p, evt, t) ==
    /\ RlBegin(p, [op |-> "Append", evt |-> evt])
    /\ Len(Written(rlfile)) + Cardinality(Appending) < MaxLines
    /\ IF RunIDIsBlank(evt)
       THEN /\ rlres' = [rlres EXCEPT ![p] = RlFail("run_id is required")]
            /\ rlpc' = [rlpc EXCEPT ![p] = "done"]
            /\ t = clock
            /\ UNCHANGED <<clock, rlevt, rlnextId>>
       ELSE IF EventTypeIsBlank(evt)
       THEN /\ rlres' = [rlres EXCEPT ![p] = RlFail("event_type is required")]
            /\ rlpc' = [rlpc EXCEPT ![p] = "done"]
            /\ t = clock
            /\ UNCHANGED <<clock, rlevt, rlnextId>>
       ELSE /\ IF IsZero(evt.Timestamp) THEN TimeNow(t)
               ELSE t = clock /\ UNCHANGED clock
            /\ rlnextId' = IF evt.EventID = <<>> THEN rlnextId + 1 ELSE rlnextId
            /\ rlevt' = [rlevt EXCEPT ![p] = PrepareEvent(evt, rlnextId, t)]
            /\ rlpc' = [rlpc EXCEPT ![p] = "lock"]
            /\ UNCHANGED rlres
    /\ UNCHANGED <<rlfile, rlholders, rlnWritten>>

(* flock.New(s.lockPath).Lock() of Append and of ReadRun.                  *)
RlLock(p) ==
    /\ rlpc[p] = "lock"
    /\ LockAvailable(rlholders)
    /\ rlholders' = rlholders \cup {p}
    /\ rlpc' = [rlpc EXCEPT ![p] = IF rlcall[p].op = "Append" THEN "write" ELSE "scan"]
    /\ UNCHANGED <<clock, rlfile, rlnextId, rlnCalls, rlnWritten, rlcall, rlevt, rlres>>

(* Append under the lock: OpenFile with O_CREATE|O_APPEND, json.Marshal    *)
(* and Write, which either writes the line at once or comes back from a    *)
(* short write and goes on.  frac is the number of digits behind the       *)
(* second of the event's time, which json.Marshal is the first to look at. *)
FileWrite_Truncate(f, w) == [exists |-> TRUE, lines |-> <<w>>]

FileWrite(f, w) ==
    LET n == Len(f.lines)
    IN [exists |-> TRUE,
        lines |-> IF w.part = "tail" /\ n > 0 /\ f.lines[n] = LineHead(w.json, w.frac)
                  THEN SubSeq(f.lines, 1, n - 1) \o <<Line(w.json, w.frac)>>
                  ELSE f.lines \o <<w>>]

AppendWrite(p, short, frac) ==
    /\ rlpc[p] = "write"
    /\ IF MarshalFails(GoMap(rlevt[p].Payload))
       THEN frac = 0
       ELSE frac \in FracChoices(rlfile, rlevt[p].Timestamp)
    /\ IF MarshalFails(GoMap(rlevt[p].Payload))
       THEN /\ ~short
            /\ rlfile' = [rlfile EXCEPT !.exists = TRUE]
            /\ rlres' = [rlres EXCEPT ![p] = RlFail("json: unsupported type")]
            /\ rlpc' = [rlpc EXCEPT ![p] = "unlock"]
            /\ UNCHANGED rlnWritten
       ELSE IF short
       THEN /\ rlfile' = FileWrite(rlfile, LineHead(MarshalEvent(rlevt[p]), frac))
            /\ rlpc' = [rlpc EXCEPT ![p] = "rest"]
            /\ UNCHANGED <<rlres, rlnWritten>>
       ELSE /\ rlfile' = FileWrite(rlfile, Line(MarshalEvent(rlevt[p]), frac))
            /\ rlres' = [rlres EXCEPT ![p] = RlOk(<<>>)]
            /\ rlpc' = [rlpc EXCEPT ![p] = "unlock"]
            /\ rlnWritten' = rlnWritten + 1
    /\ UNCHANGED <<clock, rlholders, rlnextId, rlnCalls, rlcall, rlevt>>

(* Write goes on after a short write.                                      *)
AppendWriteRest(p) ==
    /\ rlpc[p] = "rest"
    /\ \E frac \in FracOf(rlfile, rlevt[p].Timestamp) :
            rlfile' = FileWrite(rlfile, LineTail(MarshalEvent(rlevt[p]), frac))
    /\ rlres' = [rlres EXCEPT ![p] = RlOk(<<>>)]
    /\ rlpc' = [rlpc EXCEPT ![p] = "unlock"]
    /\ rlnWritten' = rlnWritten + 1
    /\ UNCHANGED <<clock, rlholders, rlnextId, rlnCalls, rlcall, rlevt>>

(* ReadRun up to its lock: the check of the run id and os.Stat.            *)
ReadRun(p, runID) ==
    /\ RlBegin(p, [op |-> "ReadRun", runID |-> runID])
    /\ IF TrimSpace(runID) = <<>>
       THEN /\ rlres' = [rlres EXCEPT ![p] = RlFail("run id is required")]
            /\ rlpc' = [rlpc EXCEPT ![p] = "done"]
       ELSE IF ~rlfile.exists
       THEN /\ rlres' = [rlres EXCEPT ![p] = RlOk(<<>>)]
            /\ rlpc' = [rlpc EXCEPT ![p] = "done"]
       ELSE /\ rlpc' = [rlpc EXCEPT ![p] = "lock"]
            /\ UNCHANGED rlres
    /\ UNCHANGED <<clock, rlfile, rlholders, rlnextId, rlnWritten, rlevt>>

(* ReadRun under the lock.                                                 *)
ReadScan(p) ==
    /\ rlpc[p] = "scan"
    /\ rlres' = [rlres EXCEPT ![p] = ReadRunResult(rlfile, rlcall[p].runID)]
    /\ rlpc' = [rlpc EXCEPT ![p] = "unlock"]
    /\ UNCHANGED <<clock, rlfile, rlholders, rlnextId, rlnCalls, rlnWritten, rlcall, rlevt>>

(* The deferred f.Close and lock.Unlock.                                   *)
RlUnlock(p) ==
    /\ rlpc[p] = "unlock"
    /\ rlholders' = rlholders \ {p}
    /\ rlpc' = [rlpc EXCEPT ![p] = "done"]
    /\ UNCHANGED <<clock, rlfile, rlnextId, rlnCalls, rlnWritten, rlcall, rlevt, rlres>>

(* The operation has returned; the caller is free for its next one.        *)
RlReturn(p) ==
    /\ rlpc[p] = "done"
    /\ rlpc' = [rlpc EXCEPT ![p] = "idle"]
    /\ rlcall' = [rlcall EXCEPT ![p] = NoCall]
    /\ rlevt' = [rlevt EXCEPT ![p] = NoEvent]
    /\ rlres' = [rlres EXCEPT ![p] = RlNoResult]
    /\ UNCHANGED <<clock, rlfile, rlholders, rlnextId, rlnCalls, rlnWritten>>

(* The steps inside a run log operation; fracs are the numbers of digits   *)
(* behind the second that the text of a time may show.                     *)
RlStep(p, fracs) ==
    \/ RlLock(p)
    \/ \E short \in BOOLEAN, frac \in fracs : AppendWrite(p, short, frac)
    \/ AppendWriteRest(p)
    \/ ReadScan(p)
    \/ RlUnlock(p)
    \/ RlReturn(p)

(* The same where every Write takes one system call.                       *)
RlStepWhole(p, fracs) ==
    \/ RlLock(p)
    \/ \E frac \in fracs : AppendWrite(p, FALSE, frac)
    \/ ReadScan(p)
    \/ RlUnlock(p)
    \/ RlReturn(p)

(* ---------------------------- run log: callers ------------------------ *)

(* Two secrets, and payloads that hold one of them at each place a payload *)
(* can hold a string.                                                      *)
Secrets == {<<"x", "Y", "7">>, <<"7", "Y", "x">>}

PayloadsWith(secret) ==
    {<<[command |-> GoString(<<"d", "e", "p", "l", "o", "y", " ", "-", "-", "a", "p", "i", "-", "k", "e", "y", "=">> \o secret)]>>,
     <<[header |-> GoString(AuthorizationBearer \o secret)]>>,
     <<[args |-> GoStrings(<<GoString(<<"-", "v">>), GoString(<<"p", "a", "s", "s", "w", "o", "r", "d", ":", " ">> \o secret)>>),
        attempt |-> GoInt(2)]>>,
     <<[env |-> GoMap(<<[inner |-> GoMap(<<[auth |-> GoString(<<"s", "e", "c", "r", "e", "t", " ", "=", " ">> \o secret)]>>)]>>)]>>,
     <<[argv |-> GoSlice(<<GoString(<<"t", "o", "k", "e", "n", "=">> \o secret)>>)]>>}

(* A payload json.Marshal rejects, one whose text alone fills a scanner    *)
(* buffer, and one whose text is shorter than the buffer and whose line is *)
(* not.                                                                    *)
FuncPayload == <<[callback |-> GoFunc]>>
LongOutput == 70000
LongPayload == <<[output |-> XRun(LongOutput)]>>
NearOutput == 65500
NearPayload == <<[output |-> XRun(NearOutput)]>>

(* A text of characters of two bytes each: it has half the characters of   *)
(* a scanner buffer and its line does not fit one.                         *)
AccentPayload == <<[output |-> [t |-> "string", v |-> <<"U+00E9">>, times |-> 32703]]>>

BaseEvent == [NoEvent EXCEPT !.RunID = <<"run-1">>, !.EventType = <<"command_started">>]

PayloadEvents ==
    {[BaseEvent EXCEPT !.Payload = payload, !.Timestamp = 1, !.EventID = <<"evt-given">>] :
        payload \in {Nil, FuncPayload, LongPayload, NearPayload, AccentPayload} \cup UNION {PayloadsWith(x) : x \in Secrets}}

FieldEvents ==
    {[BaseEvent EXCEPT !.RunID = runID, !.AgentID = <<"mayor">>] :
        runID \in {<<>>, <<"\n">>, <<"run-2">>}}
    \cup {[BaseEvent EXCEPT !.EventType = eventType] : eventType \in {<<>>, <<"\t", "\n">>}}
    \cup {[BaseEvent EXCEPT !.Timestamp = t, !.EventType = <<"command_completed">>] :
            t \in {ZeroTime, 2}}

Events == PayloadEvents \cup FieldEvents

ReadRunIDs == {<<>>, <<" ", "\n">>, <<"run-1">>, <<"run-2">>}

InitRunlog ==
    /\ InitApprovals
    /\ goos = "linux"
    /\ LockIdle
    /\ RedactIdle
    /\ RunlogIdle
    /\ PolicyIdle
    /\ WebIdle

exceptRunlog == <<approvalVarsNoClock, lockVars, redactVars, policyVars, webVars>>

(* One caller, every input.                                                *)
NextRunlogSeq ==
    \/ \E evt \in Events, t \in Times :
            AppendEvent(Caller, evt, t) /\ UNCHANGED exceptRunlog
    \/ \E runID \in ReadRunIDs : ReadRun(Caller, runID) /\ UNCHANGED exceptRunlog
    \/ RlStepWhole(Caller, SeqFractions) /\ UNCHANGED exceptRunlog

SpecRunlogSeq == InitRunlog /\ [][NextRunlogSeq]_vars

(* Two callers at once.                                                    *)
ConcEvents ==
    {[BaseEvent EXCEPT !.Payload = <<[command |-> GoString(<<"d", "e", "p", "l", "o", "y", " ", "-", "-", "a", "p", "i", "-", "k", "e", "y", "=">> \o <<"x", "Y", "7">>)]>>,
                       !.Timestamp = t] : t \in {ZeroTime, 2}}

NextRunlog ==
    \/ \E p \in Procs, evt \in ConcEvents, t \in Times :
            AppendEvent(p, evt, t) /\ UNCHANGED exceptRunlog
    \/ \E p \in Procs : ReadRun(p, <<"run-1">>) /\ UNCHANGED exceptRunlog
    \/ \E p \in Procs : RlStep(p, ConcFractions) /\ UNCHANGED exceptRunlog

SpecRunlog == InitRunlog /\ [][NextRunlog]_vars

(* ---------------------------- run log: a file found on disk ----------- *)
(* The file as an earlier version of the program, or one that crashed,     *)
(* left it: a line with a payload that was never redacted, a first line    *)
(* without its beginning, a last line without its end, a line longer than  *)
(* a scanner buffer.  The time of its events is a whole second.            *)
OldEvent(payload) ==
    MarshalEvent([BaseEvent EXCEPT !.EventID = <<"evt-old">>, !.Timestamp = 1,
                                   !.Payload = payload])

OldFiles ==
    {[exists |-> TRUE, lines |-> <<Line(OldEvent(payload), 0)>>] :
        payload \in PayloadsWith(<<"x", "Y", "7">>) \cup {LongPayload}}
    \cup {[exists |-> TRUE, lines |-> <<w, Line(OldEvent(Nil), 0)>>] :
            w \in {LineTail(OldEvent(Nil), 0)}}
    \cup {[exists |-> TRUE, lines |-> <<Line(OldEvent(Nil), 0), LineHead(OldEvent(Nil), 0)>>]}

InitRunlogOld ==
    /\ InitApprovals
    /\ goos = "linux"
    /\ LockIdle
    /\ RedactIdle
    /\ rlfile \in OldFiles
    /\ rlholders = {}
    /\ rlnextId = 1
    /\ rlnCalls = 0
    /\ rlnWritten = 0
    /\ rlpc = [p \in Procs |-> "idle"]
    /\ rlcall = [p \in Procs |-> NoCall]
    /\ rlevt = [p \in Procs |-> NoEvent]
    /\ rlres = [p \in Procs |-> RlNoResult]
    /\ PolicyIdle
    /\ WebIdle

NextRunlogOld ==
    \/ \E t \in Times, at \in {ZeroTime, 2} :
            AppendEvent(Caller, [BaseEvent EXCEPT !.Timestamp = at], t)
                /\ UNCHANGED exceptRunlog
    \/ \E runID \in {<<"run-1">>, <<"run-2">>} :
            ReadRun(Caller, runID) /\ UNCHANGED exceptRunlog
    \/ RlStepWhole(Caller, Fractions) /\ UNCHANGED exceptRunlog

SpecRunlogOld == InitRunlogOld /\ [][NextRunlogOld]_vars

(* ---------------------------- policy: classification ------------------ *)

DecisionAllow == "allow"
DecisionAllowWithJustification == "allow_with_justification"
DecisionRequireApproval == "require_approval"
DecisionDeny == "deny"

Class0Safe == "class0_safe"
Class1ControlledWrite == "class1_controlled_write"
Class2Sensitive == "class2_sensitive"
Class3Critical == "class3_critical"

class0Prefixes ==
    <<<<"a", "c", "t", "i", "v", "i", "t", "y">>,
      <<"a", "u", "d", "i", "t">>,
      <<"c", "a", "t", " ">>,
      <<"d", "a", "t", "e">>,
      <<"d", "o", "c", "t", "o", "r">>,
      <<"e", "c", "h", "o", " ">>,
      <<"f", "i", "n", "d", " ">>,
      <<"g", "i", "t", " ", "b", "r", "a", "n", "c", "h">>,
      <<"g", "i", "t", " ", "d", "i", "f", "f">>,
      <<"g", "i", "t", " ", "l", "o", "g">>,
      <<"g", "i", "t", " ", "s", "h", "o", "w">>,
      <<"g", "i", "t", " ", "s", "t", "a", "t", "u", "s">>,
      <<"g", "t", " ", "a", "c", "t", "i", "v", "i", "t", "y">>,
      <<"g", "t", " ", "a", "u", "d", "i", "t">>,
      <<"g", "t", " ", "d", "o", "c", "t", "o", "r">>,
      <<"g", "t", " ", "i", "n", "f", "o">>,
      <<"g", "t", " ", "l", "o", "g">>,
      <<"g", "t", " ", "s", "t", "a", "t", "u", "s">>,
      <<"h", "e", "a", "d", " ">>,
      <<"i", "n", "f", "o">>,
      <<"l", "o", "g">>,
      <<"l", "s">>,
      <<"p", "s", " ">>,
      <<"p", "w", "d">>,
      <<"r", "g", " ">>,
      <<"s", "t", "a", "t", "u", "s">>,
      <<"t", "a", "i", "l", " ">>,
      <<"w", "c", " ">>,
      <<"w", "h", "o", "a", "m", "i">>>>

class1Prefixes ==
    <<<<"g", "i", "t", " ", "a", "d", "d">>,
      <<"g", "i", "t", " ", "c", "h", "e", "c", "k", "o", "u", "t", " ">>,
      <<"g", "i", "t", " ", "c", "o", "m", "m", "i", "t">>,
      <<"g", "i", "t", " ", "r", "e", "s", "t", "o", "r", "e", " ">>,
      <<"h", "o", "o", "k", " ">>,
      <<"m", "a", "i", "l", " ">>,
      <<"n", "o", "t", "i", "f", "y", " ">>,
      <<"g", "t", " ", "h", "o", "o", "k", " ">>,
      <<"g", "t", " ", "m", "a", "i", "l", " ">>,
      <<"g", "t", " ", "n", "o", "t", "i", "f", "y", " ">>,
      <<"g", "t", " ", "r", "i", "g", " ">>,
      <<"g", "t", " ", "s", "l", "i", "n", "g">>,
      <<"g", "t", " ", "u", "n", "s", "l", "i", "n", "g">>,
      <<"m", "a", "k", "e", " ">>,
      <<"n", "p", "m", " ", "t", "e", "s", "t">>,
      <<"n", "o", "d", "e", " ", "-", "-", "t", "e", "s", "t">>,
      <<"r", "i", "g", " ">>,
      <<"s", "l", "i", "n", "g">>,
      <<"u", "n", "s", "l", "i", "n", "g">>>>

class2Prefixes ==
    <<<<"a", "p", "t", " ">>,
      <<"b", "r", "e", "w", " ">>,
      <<"c", "u", "r", "l", " ">>,
      <<"d", "e", "a", "c", "o", "n", " ", "s", "t", "a", "r", "t">>,
      <<"d", "o", "c", "k", "e", "r", " ", "p", "u", "s", "h">>,
      <<"g", "i", "t", " ", "f", "e", "t", "c", "h">>,
      <<"g", "i", "t", " ", "p", "u", "l", "l">>,
      <<"g", "i", "t", " ", "p", "u", "s", "h">>,
      <<"g", "o", " ", "g", "e", "t", " ">>,
      <<"g", "t", " ", "d", "e", "a", "c", "o", "n", " ", "s", "t", "a", "r", "t">>,
      <<"g", "t", " ", "r", "e", "f", "i", "n", "e", "r", "y", " ", "s", "t", "a", "r", "t">>,
      <<"g", "t", " ", "r", "i", "g", " ", "b", "o", "o", "t">>,
      <<"g", "t", " ", "r", "i", "g", " ", "s", "t", "a", "r", "t">>,
      <<"g", "t", " ", "w", "i", "t", "n", "e", "s", "s", " ", "s", "t", "a", "r", "t">>,
      <<"k", "u", "b", "e", "c", "t", "l", " ", "a", "p", "p", "l", "y">>,
      <<"l", "a", "u", "n", "c", "h", "c", "t", "l", " ">>,
      <<"n", "p", "m", " ", "i", "n", "s", "t", "a", "l", "l">>,
      <<"p", "i", "p", " ", "i", "n", "s", "t", "a", "l", "l">>,
      <<"p", "n", "p", "m", " ", "i", "n", "s", "t", "a", "l", "l">>,
      <<"r", "e", "f", "i", "n", "e", "r", "y", " ", "s", "t", "a", "r", "t">>,
      <<"r", "i", "g", " ", "b", "o", "o", "t">>,
      <<"r", "i", "g", " ", "s", "t", "a", "r", "t">>,
      <<"s", "e", "r", "v", "i", "c", "e", " ">>,
      <<"s", "y", "s", "t", "e", "m", "c", "t", "l", " ">>,
      <<"w", "g", "e", "t", " ">>,
      <<"w", "i", "t", "n", "e", "s", "s", " ", "s", "t", "a", "r", "t">>,
      <<"y", "a", "r", "n", " ", "a", "d", "d", " ">>>>

class3Prefixes ==
    <<<<"c", "h", "o", "w", "n", " ">>,
      <<"d", "d", " ">>,
      <<"g", "i", "t", " ", "c", "l", "e", "a", "n", " ", "-", "f", "d">>,
      <<"g", "i", "t", " ", "r", "e", "s", "e", "t", " ", "-", "-", "h", "a", "r", "d">>,
      <<"m", "k", "f", "s", " ">>,
      <<"r", "e", "b", "o", "o", "t">>,
      <<"r", "m", " ">>,
      <<"s", "h", "u", "t", "d", "o", "w", "n">>,
      <<"s", "u", "d", "o", " ">>>>

(* The regexp classes \s and . (any character but a newline).              *)
ReSpace == ReSet(Whitespace)
ReAny == ReNot({"\n"})

(* \b(--token|--password|--secret)\b    \b(npm|pnpm|yarn)\s+add\b           *)
class2Patterns ==
    <<ReCats(<<ReWordBoundary,
               ReAlts(<<ReLit(<<"-", "-", "t", "o", "k", "e", "n">>),
                        ReLit(<<"-", "-", "p", "a", "s", "s", "w", "o", "r", "d">>),
                        ReLit(<<"-", "-", "s", "e", "c", "r", "e", "t">>)>>),
               ReWordBoundary>>),
      ReCats(<<ReWordBoundary,
               ReAlts(<<ReLit(<<"n", "p", "m">>), ReLit(<<"p", "n", "p", "m">>), ReLit(<<"y", "a", "r", "n">>)>>),
               RePlus(ReSpace), ReLit(<<"a", "d", "d">>), ReWordBoundary>>)>>

(* \brm\s+-rf\b    \bchmod\s+777\b                                          *)
(* \b(?:cat|less|more)\s+~?/.+/(?:\.ssh|\.aws|\.gnupg)/                     *)
(* \bexport\s+[^=\s]*(?:token|secret|password|key)[^=\s]*=                  *)
class3Patterns ==
    <<ReCats(<<ReWordBoundary, ReLit(<<"r", "m">>), RePlus(ReSpace), ReLit(<<"-", "r", "f">>), ReWordBoundary>>),
      ReCats(<<ReWordBoundary, ReLit(<<"c", "h", "m", "o", "d">>), RePlus(ReSpace), ReLit(<<"7", "7", "7">>), ReWordBoundary>>),
      ReCats(<<ReWordBoundary,
               ReAlts(<<ReLit(<<"c", "a", "t">>), ReLit(<<"l", "e", "s", "s">>), ReLit(<<"m", "o", "r", "e">>)>>),
               RePlus(ReSpace), ReOpt(ReSet({"~"})), ReSet({"/"}), RePlus(ReAny), ReSet({"/"}),
               ReAlts(<<ReLit(<<".", "s", "s", "h">>), ReLit(<<".", "a", "w", "s">>), ReLit(<<".", "g", "n", "u", "p", "g">>)>>),
               ReSet({"/"})>>),
      ReCats(<<ReWordBoundary, ReLit(<<"e", "x", "p", "o", "r", "t">>), RePlus(ReSpace),
               ReStar(ReNot({"="} \cup Whitespace)),
               ReAlts(<<ReLit(<<"t", "o", "k", "e", "n">>), ReLit(<<"s", "e", "c", "r", "e", "t">>),
                        ReLit(<<"p", "a", "s", "s", "w", "o", "r", "d">>), ReLit(<<"k", "e", "y">>)>>),
               ReStar(ReNot({"="} \cup Whitespace)), ReSet({"="})>>)>>

(* Variant of normalizeCommand that keeps the white space of the command.  *)
normalizeCommand_NoTrim(command, args) ==
    IF command # <<>> THEN ToLower(command)
    ELSE IF Len(args) = 0 THEN <<>>
    ELSE ToLower(TrimSpace(Join(args, <<" ">>)))

normalizeCommand(command, args) ==
    LET c == TrimSpace(command)
    IN IF c # <<>> THEN ToLower(c)
       ELSE IF Len(args) = 0 THEN <<>>
       ELSE ToLower(TrimSpace(Join(args, <<" ">>)))

matchesPrefix(command, prefixes) ==
    \E i \in DOMAIN prefixes : HasPrefix(command, prefixes[i])

matchesRegex(command, patterns) ==
    \E i \in DOMAIN patterns : MatchString(patterns[i], command)

GtPrefix == <<"g", "t", " ">>

(* ClassifyCommand: the tiers in the order class3, class2, class0, class1, *)
(* each tried on the normalized command and on it without a leading "gt ". *)
ClassifyCommand_SafeFirst(command, args) ==
    LET normalized == normalizeCommand(command, args)
        unprefixed == TrimSpace(TrimPrefix(normalized, GtPrefix))
    IN IF normalized = <<>>
       THEN [class |-> Class3Critical, reason |-> "empty command is denied"]
       ELSE IF \/ matchesPrefix(normalized, class0Prefixes)
               \/ matchesPrefix(unprefixed, class0Prefixes)
       THEN [class |-> Class0Safe, reason |-> "read-only command"]
       ELSE IF \/ matchesPrefix(normalized, class3Prefixes)
               \/ matchesPrefix(unprefixed, class3Prefixes)
               \/ matchesRegex(normalized, class3Patterns)
               \/ matchesRegex(unprefixed, class3Patterns)
       THEN [class |-> Class3Critical, reason |-> "critical/destructive command pattern"]
       ELSE IF \/ matchesPrefix(normalized, class2Prefixes)
               \/ matchesPrefix(unprefixed, class2Prefixes)
               \/ matchesRegex(normalized, class2Patterns)
               \/ matchesRegex(unprefixed, class2Patterns)
       THEN [class |-> Class2Sensitive, reason |-> "sensitive command requires approval"]
       ELSE IF \/ matchesPrefix(normalized, class1Prefixes)
               \/ matchesPrefix(unprefixed, class1Prefixes)
       THEN [class |-> Class1ControlledWrite,
             reason |-> "controlled repo-local write operation"]
       ELSE [class |-> Class1ControlledWrite,
             reason |-> "default controlled-write policy (allow with audit)"]

ClassifyCommand(command, args) ==
    LET normalized == normalizeCommand(command, args)
        unprefixed == TrimSpace(TrimPrefix(normalized, GtPrefix))
    IN IF normalized = <<>>
       THEN [class |-> Class3Critical, reason |-> "empty command is denied"]
       ELSE IF \/ matchesPrefix(normalized, class3Prefixes)
               \/ matchesPrefix(unprefixed, class3Prefixes)
               \/ matchesRegex(normalized, class3Patterns)
               \/ matchesRegex(unprefixed, class3Patterns)
       THEN [class |-> Class3Critical, reason |-> "critical/destructive command pattern"]
       ELSE IF \/ matchesPrefix(normalized, class2Prefixes)
               \/ matchesPrefix(unprefixed, class2Prefixes)
               \/ matchesRegex(normalized, class2Patterns)
               \/ matchesRegex(unprefixed, class2Patterns)
       THEN [class |-> Class2Sensitive, reason |-> "sensitive command requires approval"]
       ELSE IF \/ matchesPrefix(normalized, class0Prefixes)
               \/ matchesPrefix(unprefixed, class0Prefixes)
       THEN [class |-> Class0Safe, reason |-> "read-only command"]
       ELSE IF \/ matchesPrefix(normalized, class1Prefixes)
               \/ matchesPrefix(unprefixed, class1Prefixes)
       THEN [class |-> Class1ControlledWrite,
             reason |-> "controlled repo-local write operation"]
       ELSE [class |-> Class1ControlledWrite,
             reason |-> "default controlled-write policy (allow with audit)"]

(* A ClassifyCommand call.                                                 *)
ClassifyCall ==
    /\ classOut = NotClassified
    /\ classOut' = ClassifyCommand(classIn.command, classIn.args)
    /\ UNCHANGED <<classIn, polpc, evalFrom, evaluator, evalReq, evalRes, evalLog>>

(* ---------------------------- policy: evaluation ---------------------- *)

(* A Rule is [ID, Decision, Reason, Match, Enabled, Until]: Enabled and    *)
(* Until are pointers, Match is [Agents, Repos, CommandPrefixes,           *)
(* CommandRegex, Classes].  A Document is [Version, DefaultDecision,       *)
(* Rules].  Decisions, classes, ids and reasons are strings; agents,       *)
(* repos, commands, prefixes and regexps are character sequences.          *)
NoMatch ==
    [Agents |-> <<>>, Repos |-> <<>>, CommandPrefixes |-> <<>>,
     CommandRegex |-> <<>>, Classes |-> <<>>]

NoRule ==
    [ID |-> "", Decision |-> "", Reason |-> "", Match |-> NoMatch,
     Enabled |-> Nil, Until |-> Nil]

DefaultDocument == [Version |-> 1, DefaultDecision |-> "", Rules |-> <<>>]

(* NewDefaultEvaluator, NewEvaluator *)
NewDefaultEvaluator == [doc |-> <<DefaultDocument>>]

NewEvaluator(doc) == [doc |-> IF doc = Nil THEN <<DefaultDocument>> ELSE doc]

(* LoadDocument: the policy policyFile is missing, is not JSON, or holds a       *)
(* document; a version of 0 is read as 1.                                  *)
LoadDocument(policyFile) ==
    IF policyFile.state # "ok" THEN [err |-> policyFile.state, doc |-> Nil]
    ELSE [err |-> "none",
          doc |-> <<IF policyFile.doc.Version = 0
                    THEN [policyFile.doc EXCEPT !.Version = 1] ELSE policyFile.doc>>]

LoadOrDefault(policyFile) ==
    IF LoadDocument(policyFile).err # "none" THEN NewDefaultEvaluator
    ELSE NewEvaluator(LoadDocument(policyFile).doc)

defaultDecisionForClass_AllowByDefault(class) ==
    CASE class = Class0Safe -> DecisionAllow
      [] class = Class1ControlledWrite -> DecisionAllow
      [] class = Class2Sensitive -> DecisionRequireApproval
      [] class = Class3Critical -> DecisionDeny
      [] OTHER -> DecisionAllowWithJustification

defaultDecisionForClass(class) ==
    CASE class = Class0Safe -> DecisionAllow
      [] class = Class1ControlledWrite -> DecisionAllowWithJustification
      [] class = Class2Sensitive -> DecisionRequireApproval
      [] class = Class3Critical -> DecisionDeny
      [] OTHER -> DecisionAllowWithJustification

(* Variant of ruleEnabled that does not look at the until time.            *)
ruleEnabled_IgnoresUntil(rule, t) ==
    ~(rule.Enabled # Nil /\ ~rule.Enabled[1])

(* ruleEnabled: not switched off, and not past its until time.             *)
ruleEnabled(rule, t) ==
    /\ ~(rule.Enabled # Nil /\ ~rule.Enabled[1])
    /\ ~(rule.Until # Nil /\ t > rule.Until[1])

containsClass(classes, target) == \E i \in DOMAIN classes : classes[i] = target

matchesPatternList(patterns, value) ==
    LET v == ToLower(TrimSpace(value))
    IN /\ v # <<>>
       /\ \E i \in DOMAIN patterns :
            LET pattern == ToLower(TrimSpace(patterns[i]))
            IN /\ pattern # <<>>
               /\ \/ pattern = <<"*">>
                  \/ pattern = v
                  \/ HasPrefix(pattern, <<"*", ".">>) /\ HasSuffix(v, Tail(pattern))
                  \/ /\ HasSuffix(pattern, <<"*">>)
                     /\ HasPrefix(v, TrimSuffix(pattern, <<"*">>))

(* regexp.Compile for the expressions the rules below carry: the syntax    *)
(* tree, or an error for an expression that does not parse.                *)
PushOrigin == <<"p", "u", "s", "h", "\\", "s", "+", "o", "r", "i", "g", "i", "n">>
UnclosedGroup == <<"p", "u", "s", "h", "(">>

Compile(expr) ==
    CASE expr = PushOrigin ->
            [err |-> FALSE,
             re |-> ReCats(<<ReLit(<<"p", "u", "s", "h">>), RePlus(ReSpace), ReLit(<<"o", "r", "i", "g", "i", "n">>)>>)]
      [] expr = UnclosedGroup -> [err |-> TRUE, re |-> ReEmpty]

(* ruleMatches: each constraint that is given has to hold.                 *)
ruleMatches_AnyConstraint(match, request, class) ==
    LET command == normalizeCommand(request.Command, request.Args)
    IN \/ Len(match.Classes) = 0 /\ Len(match.Agents) = 0 /\ Len(match.Repos) = 0
          /\ Len(match.CommandPrefixes) = 0 /\ match.CommandRegex = <<>>
       \/ Len(match.Classes) > 0 /\ containsClass(match.Classes, class)
       \/ Len(match.Agents) > 0 /\ matchesPatternList(match.Agents, request.Agent)
       \/ Len(match.Repos) > 0 /\ matchesPatternList(match.Repos, request.Repo)
       \/ /\ Len(match.CommandPrefixes) > 0
          /\ \E i \in DOMAIN match.CommandPrefixes :
                LET prefix == ToLower(TrimSpace(match.CommandPrefixes[i]))
                IN prefix # <<>> /\ HasPrefix(command, prefix)
       \/ /\ match.CommandRegex # <<>>
          /\ ~Compile(match.CommandRegex).err
          /\ MatchString(Compile(match.CommandRegex).re, command)

(* Variant of ruleMatches that lets a regexp that does not compile pass.   *)
ruleMatches_BadRegexPasses(match, request, class) ==
    LET command == normalizeCommand(request.Command, request.Args)
    IN /\ ~(Len(match.Classes) > 0 /\ ~containsClass(match.Classes, class))
       /\ ~(Len(match.Agents) > 0 /\ ~matchesPatternList(match.Agents, request.Agent))
       /\ ~(Len(match.Repos) > 0 /\ ~matchesPatternList(match.Repos, request.Repo))
       /\ Len(match.CommandPrefixes) > 0 =>
            \E i \in DOMAIN match.CommandPrefixes :
                LET prefix == ToLower(TrimSpace(match.CommandPrefixes[i]))
                IN prefix # <<>> /\ HasPrefix(command, prefix)
       /\ match.CommandRegex # <<>> =>
            \/ Compile(match.CommandRegex).err
            \/ MatchString(Compile(match.CommandRegex).re, command)

ruleMatches(match, request, class) ==
    LET command == normalizeCommand(request.Command, request.Args)
    IN /\ ~(Len(match.Classes) > 0 /\ ~containsClass(match.Classes, class))
       /\ ~(Len(match.Agents) > 0 /\ ~matchesPatternList(match.Agents, request.Agent))
       /\ ~(Len(match.Repos) > 0 /\ ~matchesPatternList(match.Repos, request.Repo))
       /\ Len(match.CommandPrefixes) > 0 =>
            \E i \in DOMAIN match.CommandPrefixes :
                LET prefix == ToLower(TrimSpace(match.CommandPrefixes[i]))
                IN prefix # <<>> /\ HasPrefix(command, prefix)
       /\ match.CommandRegex # <<>> =>
            /\ ~Compile(match.CommandRegex).err
            /\ MatchString(Compile(match.CommandRegex).re, command)

(* The loop of Evaluate over the rules from the i-th on: the result of the *)
(* first rule that is enabled and matches, or of the default decision.     *)
RECURSIVE EvaluateRules_LastWins(_, _, _, _, _, _)
EvaluateRules_LastWins(doc, i, request, class, t, result) ==
    IF i > Len(doc.Rules)
    THEN IF doc.DefaultDecision # ""
         THEN [result EXCEPT !.Decision = doc.DefaultDecision] ELSE result
    ELSE LET rule == doc.Rules[i]
             rest == EvaluateRules_LastWins(doc, i + 1, request, class, t, result)
         IN IF ruleEnabled(rule, t) /\ ruleMatches(rule.Match, request, class)
               /\ rest.RuleID = ""
            THEN [result EXCEPT !.Decision = rule.Decision, !.RuleID = rule.ID,
                                !.Reason = IF rule.Reason # "" THEN rule.Reason ELSE @]
            ELSE rest

RECURSIVE EvaluateRules(_, _, _, _, _, _)
EvaluateRules(doc, i, request, class, t, result) ==
    IF i > Len(doc.Rules)
    THEN IF doc.DefaultDecision # ""
         THEN [result EXCEPT !.Decision = doc.DefaultDecision] ELSE result
    ELSE LET rule == doc.Rules[i]
         IN IF ruleEnabled(rule, t) /\ ruleMatches(rule.Match, request, class)
            THEN [result EXCEPT !.Decision = rule.Decision, !.RuleID = rule.ID,
                                !.Reason = IF rule.Reason # "" THEN rule.Reason ELSE @]
            ELSE EvaluateRules(doc, i + 1, request, class, t, result)

(* Variant of Evaluate that goes through the rule loop, and so on to the   *)
(* default decision, also when the document has no rules.                  *)
Evaluate_DefaultAlways(e, request, t) ==
    LET classified == ClassifyCommand(request.Command, request.Args)
        result == [Decision |-> defaultDecisionForClass(classified.class),
                   Class |-> classified.class,
                   Reason |-> classified.reason,
                   RuleID |-> ""]
    IN IF e.doc = Nil THEN result
       ELSE EvaluateRules(e.doc[1], 1, request, classified.class,
                          IF request.Timestamp = ZeroTime THEN t ELSE request.Timestamp,
                          result)

(* Evaluate: t is the reading of time.Now, taken when the request carries  *)
(* no timestamp.                                                           *)
Evaluate(e, request, t) ==
    LET classified == ClassifyCommand(request.Command, request.Args)
        result == [Decision |-> defaultDecisionForClass(classified.class),
                   Class |-> classified.class,
                   Reason |-> classified.reason,
                   RuleID |-> ""]
    IN IF e.doc = Nil \/ Len(e.doc[1].Rules) = 0 THEN result
       ELSE EvaluateRules(e.doc[1], 1, request, classified.class,
                          IF request.Timestamp = ZeroTime THEN t ELSE request.Timestamp,
                          result)

(* The calls: one constructor, then Evaluate.                              *)
NewEvaluatorCall(doc) ==
    /\ polpc = "new"
    /\ polpc' = "ready"
    /\ evalFrom' = [call |-> "NewEvaluator", doc |-> doc, file |-> "none"]
    /\ evaluator' = NewEvaluator(doc)
    /\ UNCHANGED <<clock, classIn, classOut, evalReq, evalRes, evalLog>>

LoadOrDefaultCall(policyFile) ==
    /\ polpc = "new"
    /\ polpc' = "ready"
    /\ evalFrom' = [call |-> "LoadOrDefault", doc |-> Nil, file |-> policyFile.state]
    /\ evaluator' = LoadOrDefault(policyFile)
    /\ UNCHANGED <<clock, classIn, classOut, evalReq, evalRes, evalLog>>

(* Variant of EvaluateCall that asks the wall clock also when the request  *)
(* carries a timestamp.                                                    *)
EvaluateCall_AlwaysNow(request, t) ==
    /\ polpc \in {"ready", "done"}
    /\ polpc' = "done"
    /\ evalReq' = request
    /\ IF request.Timestamp = ZeroTime
       THEN TimeNow(t)
       ELSE t = clock /\ UNCHANGED clock
    /\ evalRes' = Evaluate(evaluator, [request EXCEPT !.Timestamp = ZeroTime], t)
    /\ evalLog' = evalLog \cup {[req |-> request, at |-> t, res |-> evalRes']}
    /\ UNCHANGED <<classIn, classOut, evalFrom, evaluator>>

(* An Evaluate call on the Evaluator built, the first or a later one: t is *)
(* the wall clock, which Evaluate reads when the request has no timestamp. *)
EvaluateCall(request, t) ==
    /\ polpc \in {"ready", "done"}
    /\ polpc' = "done"
    /\ evalReq' = request
    /\ IF request.Timestamp = ZeroTime
       THEN TimeNow(t)
       ELSE t = clock /\ UNCHANGED clock
    /\ evalRes' = Evaluate(evaluator, request, t)
    /\ evalLog' = evalLog \cup {[req |-> request, at |-> t, res |-> evalRes']}
    /\ UNCHANGED <<classIn, classOut, evalFrom, evaluator>>

(* ---------------------------- policy: ClassifyCommand calls ----------- *)

(* Commands of every tier, commands of two tiers at once, and commands no  *)
(* tier knows.                                                             *)
ShellCommands ==
    {<<"g", "i", "t", " ", "s", "t", "a", "t", "u", "s">>,
     <<"l", "s", " ", "-", "l", "a">>,
     <<"c", "a", "t", " ", "n", "o", "t", "e", "s", ".", "t", "x", "t">>,
     <<"c", "a", "t", " ", "/", "h", "o", "m", "e", "/", "u", "/", ".", "s", "s", "h", "/", "i", "d", "_", "r", "s", "a">>,
     <<"c", "a", "t", " ", "~", "/", ".", "s", "s", "h", "/", "i", "d", "_", "r", "s", "a">>,
     <<"g", "i", "t", " ", "c", "o", "m", "m", "i", "t", " ", "-", "m", " ", "x">>,
     <<"s", "l", "i", "n", "g">>,
     <<"g", "i", "t", " ", "p", "u", "s", "h", " ", "o", "r", "i", "g", "i", "n", " ", "m", "a", "i", "n">>,
     <<"n", "p", "m", " ", "i", "n", "s", "t", "a", "l", "l", " ", "x">>,
     <<"y", "a", "r", "n", " ", " ", "a", "d", "d", " ", "l", "e", "f", "t", "-", "p", "a", "d">>,
     <<"d", "e", "p", "l", "o", "y", " ", "-", "-", "t", "o", "k", "e", "n", " ", "a", "b", "c">>,
     <<"r", "u", "n", " ", "x", "-", "-", "t", "o", "k", "e", "n", " ", "y">>,
     <<"r", "m", " ", "-", "r", "f", " ", "/">>,
     <<"r", "m", " ", "x">>,
     <<"s", "u", "d", "o", " ", "l", "s">>,
     <<"g", "i", "t", " ", "r", "e", "s", "e", "t", " ", "-", "-", "h", "a", "r", "d">>,
     <<"c", "h", "m", "o", "d", " ", "7", "7", "7", " ", "f">>,
     <<"e", "x", "p", "o", "r", "t", " ", "a", "p", "i", "_", "t", "o", "k", "e", "n", "=", "a", "b", "c">>,
     <<"l", "s", ";", " ", "r", "m", " ", "-", "r", "f", " ", "x">>,
     <<"c", "u", "r", "l", " ", "x", ";", " ", "r", "m", " ", "-", "r", "f", " ", "y">>,
     <<"l", "s", " ", "&", "&", " ", "y", "a", "r", "n", " ", "a", "d", "d", " ", "x">>,
     <<"g", "i", "t", " ", "a", "d", "d", " ", ".", " ", "&", "&", " ", "n", "p", "m", " ", "a", "d", "d", " ", "x">>,
     <<"d", "e", "p", "l", "o", "y", " ", "a", "p", "p">>,
     <<"s", "t", "a", "t", "u", "s">>,
     <<"l", "e", "s", "s", " ", "/", "a", "/", "b", "/", ".", "a", "w", "s", "/", "c", "r", "e", "d", "e", "n", "t", "i", "a", "l", "s">>,
     <<"c", "a", "t", " ", "~", "/", ".", "s", "s", "h", "/", "i", "d", "_", "r", "s", "a">>,
     <<"c", "a", "t", " ", "/", "h", "o", "m", "e", "/", "u", "/", ".", "s", "s", "h", "/", "i", "d", "_", "r", "s", "a">>}

(* The words of a command, for a call that gives it as args.               *)
RECURSIVE Split(_, _)
Split(s, word) ==
    IF s = <<>> THEN <<word>>
    ELSE IF Head(s) = " " THEN <<word>> \o Split(Tail(s), <<>>)
    ELSE Split(Tail(s), Append(word, Head(s)))

ToUpper(s) == [i \in 1..Len(s) |-> ToUpperChar(s[i])]

(* "Kubectl apply -f x" with the kelvin sign for its first letter, which   *)
(* strings.ToLower turns into k.                                           *)
KelvinKubectl ==
    <<"U+212A", "u", "b", "e", "c", "t", "l", " ", "a", "p", "p", "l", "y", " ", "-", "f", " ", "x">>

(* Each command as it is, behind "gt ", in capitals between spaces, and    *)
(* given as args with an empty or a blank command; and the empty commands. *)
ClassifyInputs ==
    {[command |-> c, args |-> <<>>] : c \in ShellCommands}
    \cup {[command |-> GtPrefix \o c, args |-> <<>>] : c \in ShellCommands}
    \cup {[command |-> <<"\n">> \o ToUpper(c) \o <<"\t">>, args |-> <<>>] : c \in ShellCommands}
    \cup {[command |-> blank, args |-> Split(c, <<>>)] :
            blank \in {<<>>, <<" ">>}, c \in ShellCommands}
    \cup {[command |-> blank, args |-> args] :
            blank \in {<<>>, <<" ", "\n">>}, args \in {<<>>, <<<<>>>>, <<<<" ">>>>}}
    \cup {[command |-> <<"g", "t">>, args |-> <<>>],
          [command |-> <<"g", "t", " ">>, args |-> <<<<"r", "m">>>>],
          [command |-> KelvinKubectl, args |-> <<>>]}

InitClassify ==
    /\ InitApprovals
    /\ goos = "linux"
    /\ LockIdle
    /\ RedactIdle
    /\ RunlogIdle
    /\ classIn \in ClassifyInputs
    /\ classOut = NotClassified
    /\ polpc = "new"
    /\ evalFrom = NotBuilt
    /\ evaluator = [doc |-> Nil]
    /\ evalReq = NoEvalRequest
    /\ evalRes = NoEvalResult
    /\ evalLog = {}
    /\ WebIdle

exceptPolicy == <<approvalVars, lockVars, redactVars, runlogVars, webVars>>

NextClassify == ClassifyCall /\ UNCHANGED exceptPolicy

SpecClassify == InitClassify /\ [][NextClassify]_vars

(* ---------------------------- policy: Evaluate calls ------------------ *)

Mayor == <<"m", "a", "y", "o", "r">>
Witness == <<"w", "i", "t", "n", "e", "s", "s">>
TownRepo == <<"g", "i", "t", "h", "u", "b", ".", "c", "o", "m", "/", "a", "c", "m", "e", "/", "t", "o", "w", "n">>
GitPush == <<"g", "i", "t", " ", "p", "u", "s", "h">>
GitPushOriginMain == <<"g", "i", "t", " ", "p", "u", "s", "h", " ", "o", "r", "i", "g", "i", "n", " ", "m", "a", "i", "n">>

(* The rule of TestEvaluateRuleOverride, and rules with each other kind of *)
(* constraint: classes and a repo pattern, a regexp and the agent pattern  *)
(* "*", a rule switched off, a rule with an until time and a prefix to     *)
(* trim and lower, a regexp that does not compile, no constraint at all.   *)
RuleMayorPush ==
    [NoRule EXCEPT !.ID = "allow-git-push-for-mayor",
                   !.Decision = DecisionAllowWithJustification,
                   !.Enabled = <<TRUE>>,
                   !.Match = [NoMatch EXCEPT !.Agents = <<Mayor>>,
                                             !.CommandPrefixes = <<GitPush>>]]
RuleDenySensitive ==
    [NoRule EXCEPT !.ID = "deny-sensitive", !.Decision = DecisionDeny,
                   !.Reason = "sensitive commands are frozen",
                   !.Match = [NoMatch EXCEPT
                                !.Classes = <<Class3Critical, Class2Sensitive>>,
                                !.Repos = <<<<"g", "i", "t", "h", "u", "b", ".", "c", "o", "m", "/", "a", "c", "m", "e", "/", "*">>>>]]
RuleReviewOrigin ==
    [NoRule EXCEPT !.ID = "review-origin", !.Decision = DecisionRequireApproval,
                   !.Match = [NoMatch EXCEPT !.Agents = <<<<"*">>>>,
                                             !.CommandRegex = PushOrigin]]
RuleOff ==
    [NoRule EXCEPT !.ID = "off", !.Decision = DecisionAllow,
                   !.Reason = "switched off", !.Enabled = <<FALSE>>]
RuleUntil ==
    [NoRule EXCEPT !.ID = "until-1", !.Decision = DecisionAllow,
                   !.Reason = "temporary", !.Until = <<1>>,
                   !.Match = [NoMatch EXCEPT !.CommandPrefixes = <<<<" ", "G", "I", "T", " ">>>>]]
RuleBadRegex ==
    [NoRule EXCEPT !.ID = "bad-regex", !.Decision = DecisionAllow,
                   !.Match = [NoMatch EXCEPT !.CommandRegex = UnclosedGroup]]
RuleAll ==
    [NoRule EXCEPT !.ID = "catch-all", !.Decision = DecisionRequireApproval,
                   !.Reason = "everything is reviewed"]

PolicyRules ==
    {RuleMayorPush, RuleDenySensitive, RuleReviewOrigin, RuleOff, RuleUntil,
     RuleBadRegex, RuleAll}

(* The documents of at most MaxRules rules, each rule once, with and       *)
(* without a default decision.                                             *)
RuleLists ==
    {rules \in UNION {[1..n -> PolicyRules] : n \in 0..MaxRules} :
        \A i, j \in DOMAIN rules : i # j => rules[i] # rules[j]}

Documents ==
    {[Version |-> 1, DefaultDecision |-> decision, Rules |-> rules] :
        decision \in {"", DecisionDeny}, rules \in RuleLists}

(* mayor/policy.json: not there, not JSON, or a document without a version.*)
PolicyFiles ==
    {[state |-> "missing", doc |-> DefaultDocument],
     [state |-> "malformed", doc |-> DefaultDocument],
     [state |-> "ok",
      doc |-> [Version |-> 0, DefaultDecision |-> DecisionDeny, Rules |-> <<>>]],
     [state |-> "ok",
      doc |-> [Version |-> 0, DefaultDecision |-> "", Rules |-> <<RuleMayorPush>>]]}

EvalCommands ==
    {GitPushOriginMain, <<"g", "i", "t", " ", "s", "t", "a", "t", "u", "s">>, <<"r", "m", " ", "-", "r", "f", " ", "/">>,
     <<"d", "e", "p", "l", "o", "y", " ", "a", "p", "p">>, <<>>}

(* A command of white space only.                                          *)
BlankCommand == <<"\n", "\t">>

EvalRequests ==
    {[NoEvalRequest EXCEPT !.Agent = agent, !.Repo = repo, !.Command = command,
                           !.Timestamp = t] :
        agent \in {Mayor, Witness, <<>>}, repo \in {TownRepo, <<>>},
        command \in EvalCommands, t \in {ZeroTime, 2}}
    \cup {[NoEvalRequest EXCEPT !.Agent = Mayor, !.Args = <<<<"G", "I", "T">>, <<"p", "u", "s", "h">>>>]}
    \cup {[NoEvalRequest EXCEPT !.Command = BlankCommand]}

InitPolicy ==
    /\ InitApprovals
    /\ goos = "linux"
    /\ LockIdle
    /\ RedactIdle
    /\ RunlogIdle
    /\ PolicyIdle
    /\ WebIdle

exceptEvaluate == <<approvalVarsNoClock, lockVars, redactVars, runlogVars, webVars>>

NextPolicy ==
    \/ \E doc \in {Nil} \cup {<<document>> : document \in Documents} :
            NewEvaluatorCall(doc) /\ UNCHANGED exceptEvaluate
    \/ \E policyFile \in PolicyFiles :
            LoadOrDefaultCall(policyFile) /\ UNCHANGED exceptEvaluate
    \/ \E request \in EvalRequests, t \in Times :
            polpc = "ready" /\ EvaluateCall(request, t) /\ UNCHANGED exceptEvaluate

SpecPolicy == InitPolicy /\ [][NextPolicy]_vars

(* ---------------------------- policy: repeated Evaluate calls --------- *)
(* One Evaluator, called again and again while the wall clock moves on.    *)
PureDocuments ==
    {[Version |-> 1, DefaultDecision |-> "", Rules |-> <<RuleUntil>>],
     [Version |-> 1, DefaultDecision |-> DecisionDeny, Rules |-> <<RuleMayorPush>>],
     [Version |-> 1, DefaultDecision |-> "", Rules |-> <<RuleOff, RuleUntil, RuleAll>>]}

PureRequests ==
    {[NoEvalRequest EXCEPT !.Agent = Mayor, !.Repo = TownRepo,
                           !.Command = GitPushOriginMain, !.Timestamp = t] :
        t \in {ZeroTime, 1, 2}}
    \cup {[NoEvalRequest EXCEPT !.Agent = Witness, !.Command = <<"g", "i", "t", " ", "s", "t", "a", "t", "u", "s">>]}

NextPure ==
    \/ \E doc \in {Nil} \cup {<<document>> : document \in PureDocuments} :
            NewEvaluatorCall(doc) /\ UNCHANGED exceptEvaluate
    \/ \E request \in PureRequests, t \in Times :
            /\ Cardinality(evalLog) < MaxEvals
            /\ EvaluateCall(request, t) /\ UNCHANGED exceptEvaluate

SpecPure == InitPolicy /\ [][NextPure]_vars

(* ---------------------------- policy: decisions as written ------------- *)
(* mayor/policy.json as an operator may have written it: json.Unmarshal    *)
(* takes any string for a decision, and a rule may carry none.             *)
RuleNoDecision ==
    [NoRule EXCEPT !.ID = "no-decision",
                   !.Match = [NoMatch EXCEPT !.CommandPrefixes = <<GitPush>>]]
RuleMaybe ==
    [NoRule EXCEPT !.ID = "maybe", !.Decision = "maybe",
                   !.Match = [NoMatch EXCEPT !.Agents = <<Mayor>>]]

WrittenFiles ==
    {[state |-> "ok",
      doc |-> [Version |-> 0, DefaultDecision |-> decision, Rules |-> rules]] :
        decision \in {"", DecisionDeny, "maybe"},
        rules \in {<<RuleNoDecision>>, <<RuleMaybe>>, <<RuleMayorPush>>,
                   <<RuleMaybe, RuleNoDecision>>}}

WrittenRequests ==
    {[NoEvalRequest EXCEPT !.Agent = agent, !.Command = command] :
        agent \in {Mayor, Witness},
        command \in {GitPushOriginMain, <<"g", "i", "t", " ", "s", "t", "a", "t", "u", "s">>}}

NextWritten ==
    \/ \E policyFile \in WrittenFiles :
            LoadOrDefaultCall(policyFile) /\ UNCHANGED exceptEvaluate
    \/ \E request \in WrittenRequests, t \in Times :
            /\ polpc \in {"ready", "done"}
            /\ Cardinality(evalLog) < MaxEvals
            /\ EvaluateCall(request, t) /\ UNCHANGED exceptEvaluate

SpecWritten == InitPolicy /\ [][NextWritten]_vars

(* ---------------------------- both stores under fair scheduling -------- *)
(* Two callers of the approval store or of the run log, no caller dying:   *)
(* a caller inside an operation goes on running, and a caller waiting for  *)
(* the lock gets it if it is free again and again.  The two stores share   *)
(* only the clock, so a behaviour calls one of them.                       *)
FairTimes == {1}

FairEvents == {BaseEvent, [BaseEvent EXCEPT !.Payload = <<[hook |-> GoFunc]>>]}

(* A document with one request, denied.                                    *)
DeniedDocument ==
    MarshalStore(
        DecideApply([Version |-> 1,
                     Requests |-> <<NewRequest(CHOOSE input \in ConcCreateInputs : TRUE, 0, 1)>>],
                    [ID |-> RequestID(0), Decision |-> StatusDenied,
                     Approver |-> <<>>, Rationale |-> <<>>], 1).sf)

InitFair ==
    /\ \E f \in {NoFile, DamagedDocument, DeniedDocument} : InitStore(f)
    /\ goos = "linux"
    /\ LockIdle
    /\ RedactIdle
    /\ RunlogIdle
    /\ PolicyIdle
    /\ WebIdle

(* Three operations by two callers, which is what it takes for a waiting   *)
(* caller to be overtaken: after the first call, a caller starts an        *)
(* operation while the other caller is waiting for the lock.               *)
FairCalls == Cardinality(Procs) + 1

StoreCalled(p) ==
    /\ rlnCalls = 0
    /\ nCalls < FairCalls
    /\ nCalls = 0 \/ \E q \in Procs \ {p} : pc[q] = "lock"

LogCalled(p) ==
    /\ nCalls = 0
    /\ file = NoFile
    /\ rlnCalls < FairCalls
    /\ rlnCalls = 0 \/ \E q \in Procs \ {p} : rlpc[q] = "lock"

NextFair ==
    \/ \E p \in Procs, input \in ConcCreateInputs, t \in FairTimes :
            StoreCalled(p) /\ Create(p, input, t) /\ UNCHANGED otherVars
    \/ \E p \in Procs, id \in KnownIDs, decision \in {StatusApproved, StatusPending}, t \in FairTimes :
            /\ StoreCalled(p)
            /\ Decide(p, [ID |-> id, Decision |-> decision, Approver |-> <<>>,
                          Rationale |-> <<>>], t)
            /\ UNCHANGED otherVars
    \/ \E p \in Procs, id \in KnownIDs, t \in FairTimes :
            StoreCalled(p) /\ MarkExecuted(p, id, <<"run-2">>, t) /\ UNCHANGED otherVars
    \/ \E p \in Procs, id \in KnownIDs :
            StoreCalled(p) /\ Get(p, id) /\ UNCHANGED otherVars
    \/ \E p \in Procs : Step(p) /\ UNCHANGED otherVars
    \/ \E p \in Procs, evt \in FairEvents, t \in FairTimes :
            LogCalled(p) /\ AppendEvent(p, evt, t) /\ UNCHANGED exceptRunlog
    \/ \E p \in Procs :
            LogCalled(p) /\ ReadRun(p, <<"run-1">>) /\ UNCHANGED exceptRunlog
    \/ \E p \in Procs : RlStep(p, ConcFractions) /\ UNCHANGED exceptRunlog

(* No caller dies and flock is fair: a caller whose next step is possible  *)
(* again and again takes it.  For the steps inside an operation, which     *)
(* nothing disables, that is a caller that goes on running; for the        *)
(* acquire it is a lock that does not pass a waiting caller over for ever. *)
Fairness ==
    \A p \in Procs :
        /\ SF_vars(Step(p) /\ UNCHANGED otherVars)
        /\ SF_vars(RlStep(p, ConcFractions) /\ UNCHANGED exceptRunlog)

SpecFair == InitFair /\ [][NextFair]_vars /\ Fairness

(* ---------------------------- web: the approval handlers -------------- *)
(* handleApprovalCreate and handleApprovalDecision of internal/web: one    *)
(* server process that takes a request, runs the store operation, appends  *)
(* the audit event and responds, and that can die at any point.            *)
WorkDir == <<"/", "T", "o", "w", "n", "/">>
Dashboard == <<"d", "a", "s", "h", "b", "o", "a", "r", "d">>

(* strings.IndexByte and strings.LastIndexByte, counted from 1: 0 is "not  *)
(* there".                                                                 *)
IndexByte(s, c) ==
    IF \E i \in 1..Len(s) : s[i] = c
    THEN CHOOSE i \in 1..Len(s) : s[i] = c /\ \A k \in 1..(i - 1) : s[k] # c
    ELSE 0

LastIndexByte(s, c) ==
    IF \E i \in 1..Len(s) : s[i] = c
    THEN CHOOSE i \in 1..Len(s) : s[i] = c /\ \A k \in (i + 1)..Len(s) : s[k] # c
    ELSE 0

(* The elements of a path between its slashes.                             *)
RECURSIVE Components(_, _)
Components(path, part) ==
    IF path = <<>> THEN <<part>>
    ELSE IF Head(path) = "/" THEN <<part>> \o Components(Tail(path), <<>>)
    ELSE Components(Tail(path), Append(part, Head(path)))

(* The elements filepath.Clean keeps: an empty element and "." go, ".."    *)
(* takes the element before it away, stays at the start of a path that is  *)
(* not rooted and goes at the root.                                        *)
RECURSIVE CleanParts(_, _, _)
CleanParts(parts, out, rooted) ==
    IF parts = <<>> THEN out
    ELSE LET part == Head(parts)
         IN IF part = <<>> \/ part = <<".">>
            THEN CleanParts(Tail(parts), out, rooted)
            ELSE IF part = <<".", ".">>
            THEN IF out # <<>> /\ out[Len(out)] # <<".", ".">>
                 THEN CleanParts(Tail(parts), SubSeq(out, 1, Len(out) - 1), rooted)
                 ELSE IF rooted
                 THEN CleanParts(Tail(parts), out, rooted)
                 ELSE CleanParts(Tail(parts), Append(out, part), rooted)
            ELSE CleanParts(Tail(parts), Append(out, part), rooted)

(* filepath.Clean on a system whose separator is the slash: the shortest   *)
(* path that names the same place; "." for the empty one.                  *)
Clean(path) ==
    LET rooted == path # <<>> /\ path[1] = "/"
        kept == Join(CleanParts(Components(path, <<>>), <<>>, rooted), <<"/">>)
    IN IF rooted THEN <<"/">> \o kept
       ELSE IF kept = <<>> THEN <<".">>
       ELSE kept

(* The characters from the space to the tilde in the order of their codes. *)
Ascii ==
    <<" ", "!", "\"", "#", "$", "%", "&", "'", "(", ")", "*", "+",
    ",", "-", ".", "/", "0", "1", "2", "3", "4", "5", "6", "7",
    "8", "9", ":", ";", "<", "=", ">", "?", "@", "A", "B", "C",
    "D", "E", "F", "G", "H", "I", "J", "K", "L", "M", "N", "O",
    "P", "Q", "R", "S", "T", "U", "V", "W", "X", "Y", "Z", "[",
    "\\", "]", "^", "_", "U+0060", "a", "b", "c", "d", "e", "f", "g",
    "h", "i", "j", "k", "l", "m", "n", "o", "p", "q", "r", "s",
    "t", "u", "v", "w", "x", "y", "z", "{", "|", "}", "~">>

HexDigits == Digits \cup {"a", "b", "c", "d", "e", "f", "A", "B", "C", "D", "E", "F"}

unhex(c) ==
    CASE c \in Digits -> CHOOSE n \in 0..9 : DigitChars[n + 1] = c
      [] c \in {"a", "A"} -> 10
      [] c \in {"b", "B"} -> 11
      [] c \in {"c", "C"} -> 12
      [] c \in {"d", "D"} -> 13
      [] c \in {"e", "E"} -> 14
      [] c \in {"f", "F"} -> 15

(* The character with a code.  A byte from 128 on is a part of a          *)
(* character of several bytes, and no escape in the texts here stands for  *)
(* one.                                                                    *)
ByteChar(code) ==
    CASE code \in 0..31 -> ControlCodes[code + 1]
      [] code \in 32..126 -> Ascii[code - 31]
      [] code = 127 -> Delete

(* A percent sign is followed by two hexadecimal digits.                   *)
EscapesOK(s) ==
    \A i \in 1..Len(s) :
        s[i] = "%" => i + 2 <= Len(s) /\ s[i + 1] \in HexDigits /\ s[i + 2] \in HexDigits

(* url.unescape of a text whose escapes are well formed.                   *)
RECURSIVE unescape(_)
unescape(s) ==
    IF s = <<>> THEN <<>>
    ELSE IF Head(s) = "%"
    THEN <<ByteChar(16 * unhex(s[2]) + unhex(s[3]))>> \o unescape(SubSeq(s, 4, Len(s)))
    ELSE <<Head(s)>> \o unescape(Tail(s))

(* stringContainsCTLByte: the bytes below the space and the delete         *)
(* character, which a URL may not hold.                                    *)
ControlChars == Range(ControlCodes) \cup {Delete}

(* shouldEscape for a host: the ASCII characters that a host name may not  *)
(* hold as they are.                                                       *)
HostForbidden ==
    {" ", "#", "/", "?", "@", "\\", "^", GraveAccent, "{", "|", "}"} \cup ControlChars

UserinfoChars ==
    Letters \cup Digits
    \cup {"-", ".", "_", ":", "~", "!", "$", "&", "'", "(", ")", "*", "+", ",", ";", "=", "%", "@"}

validOptionalPort(port) ==
    port = <<>> \/ (port[1] = ":" /\ \A k \in 2..Len(port) : port[k] \in Digits)

(* The place where the zone of an address in brackets begins: that of the  *)
(* first "%25" before the last "]", 0 when the host has no brackets or no  *)
(* zone.                                                                   *)
ZoneStart(host) ==
    LET i == LastIndexByte(host, "]")
        starts == {k \in 1..(i - 3) : SubSeq(host, k, k + 2) = <<"%", "2", "5">>}
    IN IF host # <<>> /\ host[1] = "[" /\ starts # {}
       THEN CHOOSE k \in starts : \A m \in starts : k <= m
       ELSE 0

(* url.unescape on the escape at place k of a host (the modes encodeHost   *)
(* and encodeZone): outside a zone an escape stands for a byte outside     *)
(* ASCII or is "%25"; in a zone it is "%25" or stands for a space or for a *)
(* byte that a host may hold as it is.                                     *)
HostEscapeOK(host, k) ==
    LET v == 16 * unhex(host[k + 1]) + unhex(host[k + 2])
    IN IF ZoneStart(host) > 0 /\ k >= ZoneStart(host) /\ k < LastIndexByte(host, "]")
       THEN \/ SubSeq(host, k, k + 2) = <<"%", "2", "5">>
            \/ v = 32
            \/ v < 128 /\ ByteChar(v) \notin HostForbidden \cup {"%"}
       ELSE unhex(host[k + 1]) >= 8 \/ SubSeq(host, k, k + 2) = <<"%", "2", "5">>

(* url.parseHost without error: the brackets of an address close, what     *)
(* follows them, or else the last colon, is a port, no character needs an  *)
(* escape and every escape is one its part of the host admits.  The        *)
(* address between the brackets is not looked at.                          *)
HostOK(host) ==
    /\ IF host # <<>> /\ host[1] = "["
       THEN LET i == LastIndexByte(host, "]")
            IN i > 0 /\ validOptionalPort(SubSeq(host, i + 1, Len(host)))
       ELSE LET i == LastIndexByte(host, ":")
            IN i = 0 \/ validOptionalPort(SubSeq(host, i, Len(host)))
    /\ \A k \in 1..Len(host) : host[k] \notin HostForbidden
    /\ EscapesOK(host)
    /\ \A k \in 1..Len(host) : host[k] = "%" => HostEscapeOK(host, k)

(* strings.Cut at a byte: the text before its first occurrence, the whole  *)
(* text when there is none, and the text after it.                         *)
BeforeByte(s, c) ==
    IF IndexByte(s, c) = 0 THEN s ELSE SubSeq(s, 1, IndexByte(s, c) - 1)

AfterByte(s, c) ==
    IF IndexByte(s, c) = 0 THEN <<>> ELSE SubSeq(s, IndexByte(s, c) + 1, Len(s))

(* The text from the first occurrence of a byte on.                        *)
FromByte(s, c) ==
    IF IndexByte(s, c) = 0 THEN <<>> ELSE SubSeq(s, IndexByte(s, c), Len(s))

(* url.getScheme: the place of the first character that cannot go on a     *)
(* scheme, 0 when there is none.  A scheme is a letter and then letters,   *)
(* digits, "+", "-" and "."; it ends at a colon.                           *)
SchemeStop(u) ==
    IF \A i \in 1..Len(u) :
            u[i] \in Letters \/ (i > 1 /\ u[i] \in Digits \cup {"+", "-", "."})
    THEN 0
    ELSE CHOOSE i \in 1..Len(u) :
            /\ ~(u[i] \in Letters \/ (i > 1 /\ u[i] \in Digits \cup {"+", "-", "."}))
            /\ \A k \in 1..(i - 1) :
                    u[k] \in Letters \/ (k > 1 /\ u[k] \in Digits \cup {"+", "-", "."})

ParseFailure == [err |-> TRUE, Host |-> <<>>, Path |-> <<>>]

(* url.Parse from setPath on: the path and the fragment are unescaped.     *)
ParsePath(host, path, frag) ==
    IF ~EscapesOK(path) \/ ~EscapesOK(frag) THEN ParseFailure
    ELSE [err |-> FALSE, Host |-> unescape(host), Path |-> unescape(path)]

(* url.parseAuthority: the host is what follows the last "@", and what is  *)
(* before it is user information.                                          *)
ParseAuthority(authority, at, path, frag) ==
    IF ~HostOK(SubSeq(authority, at + 1, Len(authority))) THEN ParseFailure
    ELSE IF at > 0 /\ ~(/\ \A k \in 1..(at - 1) : authority[k] \in UserinfoChars
                        /\ EscapesOK(SubSeq(authority, 1, at - 1)))
    THEN ParseFailure
    ELSE ParsePath(SubSeq(authority, at + 1, Len(authority)), path, frag)

(* url.parse behind the scheme and without the query: a text that does not *)
(* begin with a slash is opaque behind a scheme and may otherwise hold no  *)
(* colon in its first segment; an authority follows "//" and ends at the   *)
(* next slash.  setFragment unescapes the fragment of every result, the    *)
(* opaque one too.                                                         *)
ParseRest(rest, frag, hasScheme) ==
    IF ~HasPrefix(rest, <<"/">>)
    THEN IF hasScheme
         THEN IF ~EscapesOK(frag) THEN ParseFailure
              ELSE [err |-> FALSE, Host |-> <<>>, Path |-> <<>>]
         ELSE IF IndexByte(BeforeByte(rest, "/"), ":") # 0 THEN ParseFailure
         ELSE ParsePath(<<>>, rest, frag)
    ELSE IF (hasScheme \/ ~HasPrefix(rest, <<"/", "/", "/">>)) /\ HasPrefix(rest, <<"/", "/">>)
    THEN ParseAuthority(BeforeByte(SubSeq(rest, 3, Len(rest)), "/"),
                        LastIndexByte(BeforeByte(SubSeq(rest, 3, Len(rest)), "/"), "@"),
                        FromByte(SubSeq(rest, 3, Len(rest)), "/"),
                        frag)
    ELSE ParsePath(<<>>, rest, frag)

(* url.parse of the text before the fragment: no control character, then   *)
(* the scheme, then the query behind "?" is cut off.                       *)
ParseScheme(u, stop, frag) ==
    IF \E i \in 1..Len(u) : u[i] \in ControlChars THEN ParseFailure
    ELSE IF stop = 1 /\ u[1] = ":" THEN ParseFailure
    ELSE IF stop > 1 /\ u[stop] = ":"
    THEN ParseRest(BeforeByte(SubSeq(u, stop + 1, Len(u)), "?"), frag, TRUE)
    ELSE ParseRest(BeforeByte(u, "?"), frag, FALSE)

(* url.Parse: whether it fails, and the host and the path of the URL.      *)
Parse(rawURL) ==
    ParseScheme(BeforeByte(rawURL, "#"), SchemeStop(BeforeByte(rawURL, "#")),
                AfterByte(rawURL, "#"))

(* NormalizeRepo behind its TrimSpace, with what url.Parse made of s.       *)
RepoOf(s, u) ==
    IF s = <<>> THEN <<>>
    ELSE IF ~u.err /\ u.Host # <<>>
    THEN ToLower(TrimSuffix(u.Host \o u.Path, <<"/">>))
    ELSE ToLower(Clean(s))

(* policy.NormalizeRepo: the host and path of a URL, or the cleaned path,  *)
(* in lower case.                                                          *)
NormalizeRepo(raw) == RepoOf(TrimSpace(raw), Parse(TrimSpace(raw)))

(* runlog.NewRunID: "run-", the time of the call to the second, and twelve *)
(* digits of a fresh uuid, the n-th one the process has drawn for a run.   *)
NewRunID(t, n) ==
    <<"run-", "00010101t00000", DigitChars[t + 1], "-", "00000000000", DigitChars[n + 1]>>

(* strings.TrimSpace(approvalID) == "" *)
IDIsBlank(id) == TrimSpace(id) = <<>>

(* string(decision): the text of a policy decision.                        *)
DecisionText(decision) == IF decision = "" THEN <<>> ELSE <<decision>>

(* 15 * time.Minute, in seconds.                                           *)
WebDefaultTTL == 900

(* The audit events of the two handlers.                                   *)
ApprovalRequested(approval, decision, runID) ==
    [NoEvent EXCEPT
        !.RunID = defaultValue(approval.RunID, runID),
        !.EventType = <<"approval_requested">>,
        !.State = <<"awaiting_approval">>,
        !.PolicyDecision = DecisionText(decision),
        !.Payload = <<[approval_id |-> GoString(approval.ID),
                       command |-> GoString(approval.Command),
                       class |-> GoNamed(<<approval.Class>>)]>>]

ApprovalDecided(updated, runID) ==
    [NoEvent EXCEPT
        !.RunID = defaultValue(updated.RunID, runID),
        !.EventType = <<"approval_decided">>,
        !.State = <<"approval_decided">>,
        !.PolicyDecision = DecisionText(updated.PolicyDecision),
        !.Payload = <<[approval_id |-> GoString(updated.ID),
                       status |-> GoNamed(<<updated.Status>>),
                       approver |-> GoString(updated.DecidedBy),
                       rationale |-> GoString(updated.DecisionRationale)]>>]

(* The decision a request body asks for.                                   *)
DecisionStatus(decision) ==
    LET d == ToLower(TrimSpace(decision))
    IN CASE d \in {<<"a", "p", "p", "r", "o", "v", "e">>, <<"a", "p", "p", "r", "o", "v", "e", "d">>} -> StatusApproved
         [] d \in {<<"d", "e", "n", "y">>, <<"d", "e", "n", "i", "e", "d">>} -> StatusDenied
         [] OTHER -> ""

(* handleApprovalCreate up to the call of Create: the body is checked, the *)
(* command evaluated at time te, and Create called at time t.             *)
HandleApprovalCreate(body, te, t) ==
    /\ hpc = "idle"
    /\ IF TrimSpace(body.Command) = <<>>
       THEN /\ hresp' = 400
            /\ UNCHANGED <<hpc, approvalVars>>
       ELSE LET eval == Evaluate(evaluator,
                                 [Agent |-> Dashboard,
                                  Repo |-> NormalizeRepo(defaultValue(body.Repo, WorkDir)),
                                  Command |-> TrimSpace(body.Command),
                                  Args |-> <<>>,
                                  RequestedBy |-> TrimSpace(body.RequestedBy),
                                  Timestamp |-> te], te)
                ttl == IF body.TTLSeconds > 0 THEN body.TTLSeconds
                       ELSE WebDefaultTTL
            IN /\ te \in clock..t
               /\ Create(Caller,
                         [RunID |-> TrimSpace(body.RunID),
                          Command |-> TrimSpace(body.Command),
                          Class |-> eval.Class,
                          RequestedBy |-> defaultValue(body.RequestedBy, <<"dashboard">>),
                          Repo |-> NormalizeRepo(defaultValue(body.Repo, WorkDir)),
                          PolicyDecision |-> eval.Decision,
                          Reason |-> defaultValue(body.Reason, <<eval.Reason>>),
                          TTL |-> ttl], t)
               /\ hpc' = "create"
               /\ hresp' = 0
    /\ UNCHANGED <<hruns, hcrashed, lockVars, redactVars, runlogVars, policyVars>>

(* handleApprovalDecision up to the call of Decide.                        *)
HandleApprovalDecision(approvalID, body, t) ==
    /\ hpc = "idle"
    /\ IF IDIsBlank(approvalID) \/ DecisionStatus(body.Decision) = ""
       THEN /\ hresp' = 400
            /\ UNCHANGED <<hpc, approvalVars>>
       ELSE /\ Decide(Caller,
                      [ID |-> approvalID,
                       Decision |-> DecisionStatus(body.Decision),
                       Approver |-> defaultValue(body.Approver, <<"dashboard">>),
                       Rationale |-> TrimSpace(body.Rationale)], t)
            /\ hpc' = "decide"
            /\ hresp' = 0
    /\ UNCHANGED <<hruns, hcrashed, lockVars, redactVars, runlogVars, policyVars>>

(* The store operation goes on.                                            *)
HandlerStore ==
    /\ hpc \in {"create", "decide"}
    /\ \/ Lock(Caller)
       \/ CreateFn(Caller)
       \/ DecideFn(Caller)
       \/ Unlock(Caller)
    /\ UNCHANGED <<webVars, lockVars, redactVars, runlogVars, policyVars>>

(* The store operation failed: the handler answers with the error.         *)
HandlerStoreError ==
    /\ hpc \in {"create", "decide"}
    /\ pc[Caller] = "done"
    /\ res[Caller].err # "none"
    /\ hresp' = IF hpc = "create" THEN 500 ELSE 400
    /\ hpc' = "idle"
    /\ Return(Caller)
    /\ UNCHANGED <<hruns, hcrashed, lockVars, redactVars, runlogVars, policyVars>>

(* Variant of HandlerAudit that appends the event whatever the store       *)
(* operation returned.                                                     *)
HandlerAudit_AlsoOnError(tr, t) ==
    /\ hpc \in {"create", "decide"}
    /\ pc[Caller] = "done"
    /\ tr \in clock..t
    /\ LET approval == IF res[Caller].err = "none" THEN res[Caller].val
                        ELSE [NoRequest EXCEPT !.ID = call[Caller].input.ID]
       IN AppendEvent(Caller,
                      IF hpc = "create"
                      THEN ApprovalRequested(approval, call[Caller].input.PolicyDecision,
                                             NewRunID(tr, hruns))
                      ELSE ApprovalDecided(approval, NewRunID(tr, hruns)),
                      t)
    /\ hruns' = hruns + 1
    /\ hpc' = "audit"
    /\ UNCHANGED <<hresp, hcrashed, approvalVarsNoClock, lockVars, redactVars, policyVars>>

(* The store operation succeeded: the handler draws a run id at time tr    *)
(* and calls Append with the audit event, whose error it ignores.          *)
HandlerAudit(tr, t) ==
    /\ hpc \in {"create", "decide"}
    /\ pc[Caller] = "done"
    /\ res[Caller].err = "none"
    /\ tr \in clock..t
    /\ AppendEvent(Caller,
                   IF hpc = "create"
                   THEN ApprovalRequested(res[Caller].val, call[Caller].input.PolicyDecision,
                                          NewRunID(tr, hruns))
                   ELSE ApprovalDecided(res[Caller].val, NewRunID(tr, hruns)),
                   t)
    /\ hruns' = hruns + 1
    /\ hpc' = "audit"
    /\ UNCHANGED <<hresp, hcrashed, approvalVarsNoClock, lockVars, redactVars, policyVars>>

(* Append goes on: its lock, its Write in one system call or in two, its   *)
(* unlock.                                                                 *)
HandlerLog ==
    /\ hpc = "audit"
    /\ \/ RlLock(Caller)
       \/ \E short \in BOOLEAN, frac \in HandlerFractions : AppendWrite(Caller, short, frac)
       \/ AppendWriteRest(Caller)
       \/ RlUnlock(Caller)
    /\ UNCHANGED <<webVars, approvalVarsNoClock, lockVars, redactVars, policyVars>>

(* Append has returned: the handler answers with the approval.             *)
HandlerRespond ==
    /\ hpc = "audit"
    /\ rlpc[Caller] = "done"
    /\ hresp' = IF call[Caller].op = "Create" THEN 201 ELSE 200
    /\ hpc' = "idle"
    /\ Return(Caller)
    /\ RlReturn(Caller)
    /\ UNCHANGED <<hruns, hcrashed, lockVars, redactVars, policyVars>>

(* The server process dies inside a handler and is started again when the  *)
(* platform has released its locks: what the handler held is gone, the     *)
(* files stay.  While a lock of the dead process is still held the files   *)
(* are the same and no handler gets past its lock.                         *)
HandlerCrash ==
    /\ hpc # "idle"
    /\ ~hcrashed
    /\ hcrashed' = TRUE
    /\ hpc' = "idle"
    /\ hresp' = 0
    /\ holders' = holders \ {Caller}
    /\ pc' = [pc EXCEPT ![Caller] = "idle"]
    /\ call' = [call EXCEPT ![Caller] = NoCall]
    /\ now' = [now EXCEPT ![Caller] = ZeroTime]
    /\ req' = [req EXCEPT ![Caller] = NoRequest]
    /\ sf' = [sf EXCEPT ![Caller] = storeFile]
    /\ res' = [res EXCEPT ![Caller] = NoResult]
    /\ rlholders' = rlholders \ {Caller}
    /\ rlpc' = [rlpc EXCEPT ![Caller] = "idle"]
    /\ rlcall' = [rlcall EXCEPT ![Caller] = NoCall]
    /\ rlevt' = [rlevt EXCEPT ![Caller] = NoEvent]
    /\ rlres' = [rlres EXCEPT ![Caller] = RlNoResult]
    /\ UNCHANGED <<file, tmpfile, clock, nextId, nCreated, nCalls, lastCreated,
                   rlfile, rlnextId, rlnCalls, rlnWritten, hruns,
                   lockVars, redactVars, policyVars>>

(* The request bodies.                                                     *)
CreateBodies ==
    {[RunID |-> <<>>, Command |-> <<" ", "\n">>, RequestedBy |-> <<>>,
      Repo |-> <<>>, Reason |-> <<>>, TTLSeconds |-> 0],
     [RunID |-> <<"\n">>, Command |-> <<"\n">> \o GitPush, RequestedBy |-> <<>>,
      Repo |-> <<"h", "t", "t", "p", "s", ":", "/", "/", "G", "i", "t", "H", "u", "b", ".", "c", "o", "m", "/", "A", "c", "m", "e", "/", "T", "o", "w", "n", "/">>,
      Reason |-> <<>>, TTLSeconds |-> 0],
     [RunID |-> <<" ", "run-1">>, Command |-> GitPush, RequestedBy |-> <<>>,
      Repo |-> <<"h", "t", "t", "p", ":", "/", "/", "H", "U+0060", "x", "/", "T", "o", "w", "n", "/", ".", ".", "/", "R", "e", "p", "o", "/", "/">>,
      Reason |-> <<>>, TTLSeconds |-> 1]}

DecisionBodies ==
    {[Decision |-> decision, Approver |-> <<>>, Rationale |-> <<"ok", " ">>] :
        decision \in {<<"A", "p", "p", "r", "o", "v", "e">>, <<"D", "E", "N", "U+0130", "E", "D">>, <<"m", "a", "y", "b", "e">>}}

(* The clock readings of the handlers.                                     *)
HandlerTimes == {1, 2}

NextWeb ==
    \/ \E body \in CreateBodies, te \in HandlerTimes, t \in HandlerTimes :
            HandleApprovalCreate(body, te, t)
    \/ \E approvalID \in KnownIDs \cup {<<" ", "\n">>}, body \in DecisionBodies, t \in HandlerTimes :
            HandleApprovalDecision(approvalID, body, t)
    \/ HandlerStore
    \/ HandlerStoreError
    \/ \E tr \in HandlerTimes, t \in HandlerTimes : HandlerAudit(tr, t)
    \/ HandlerLog
    \/ HandlerRespond
    \/ HandlerCrash

SpecWeb == Init /\ [][NextWeb]_vars

(* ---------------------------- properties ------------------------------- *)
(* The persisted record with the given id.                                 *)
HasPersistedIn(f, id) == \E i \in 1..Len(f.requests) : f.requests[i].id = id

PersistedIn(f, id) ==
    f.requests[CHOOSE i \in 1..Len(f.requests) : f.requests[i].id = id]

HasPersisted(id) == HasPersistedIn(file, id)

Persisted(id) == PersistedIn(file, id)

(* The status a persisted record has for a caller whose clock reads t.     *)
EffectiveStatus(j, t) ==
    IF j.status = "pending" /\ t > j.expires_at THEN "expired" ELSE j.status

Finished(p, op) == pc[p] \in {"unlock", "done"} /\ call[p].op = op

AllowedTransitions ==
    {<<"pending", "approved">>, <<"pending", "denied">>, <<"pending", "expired">>,
     <<"pending", "executed">>, <<"approved", "executed">>}

(* C1: every change of a persisted status is pending->approved,            *)
(* pending->denied, pending->expired, pending->executed or                 *)
(* approved->executed, under every interleaving of the callers; so a       *)
(* persisted denied, expired or executed request never changes status.     *)
C1_StatusTransitions ==
    [][\A i \in 1..Len(file.requests) :
          /\ i <= Len(file'.requests)
          /\ file'.requests[i].id = file.requests[i].id
          /\ \/ file'.requests[i].status = file.requests[i].status
             \/ <<file.requests[i].status, file'.requests[i].status>> \in AllowedTransitions]_vars

(* A request was approved and then executed.                               *)
C1_Witness ==
    \E i \in 1..Len(file.requests) :
        /\ file.requests[i].status = "executed"
        /\ "decision_at" \in DOMAIN file.requests[i]

(* C2: Decide on a request whose status after the lazy expiry is approved, *)
(* denied, expired or executed returns a conflict and leaves the persisted *)
(* document as it was.                                                     *)
C2_DecideConflictUnchanged ==
    [][\A p \in Procs :
          (/\ pc[p] = "fn" /\ call[p].op = "Decide" /\ pc'[p] = "unlock"
           /\ HasPersisted(call[p].input.ID)
           /\ EffectiveStatus(Persisted(call[p].input.ID), now[p])
                 \in {"approved", "denied", "expired", "executed"})
          => (res'[p].err = "conflict" /\ file' = file)]_vars

(* A Decide got a conflict for a request that is persisted as pending and  *)
(* has expired for the caller.                                             *)
C2_Witness ==
    \E p \in Procs :
        /\ Finished(p, "Decide")
        /\ res[p].err = "conflict"
        /\ HasPersisted(call[p].input.ID)
        /\ Persisted(call[p].input.ID).status = "pending"

(* C3: with callers running Create concurrently, the persisted document    *)
(* holds one entry per successful Create, all with distinct ids, and the   *)
(* request of every successful Create is among them.                       *)
C3_NoLostCreate ==
    /\ Len(file.requests) = nCreated
    /\ \A i, k \in 1..Len(file.requests) :
          file.requests[i].id = file.requests[k].id => i = k
    /\ \A p \in Procs :
          (Finished(p, "Create") /\ res[p].err = "none")
          => HasPersisted(res[p].val.ID)

(* Two Creates overlapped: the caller that drew its id second wrote first, *)
(* and both requests are persisted.                                        *)
C3_Witness ==
    /\ nCreated = 2
    /\ Len(file.requests) = 2
    /\ file.requests[1].id = RequestID(2)
    /\ file.requests[2].id = RequestID(1)
    /\ \A p \in Procs : pc[p] = "done" /\ call[p].op = "Create"

(* C4: a request that was never decided or executed is returned by Get and *)
(* List as expired when the caller's clock is past expires_at, and as      *)
(* pending when it is not.                                                 *)
C4_Returned(p, r) ==
    (HasPersisted(r.ID) /\ Persisted(r.ID).status \in {"pending", "expired"})
    => r.Status = IF now[p] > r.ExpiresAt THEN "expired" ELSE "pending"

C4_LazyExpiryOnRead ==
    \A p \in Procs :
        /\ (pc[p] = "done" /\ call[p].op = "Get" /\ res[p].err = "none")
              => C4_Returned(p, res[p].val)
        /\ (pc[p] = "done" /\ call[p].op = "List")
              => \A i \in 1..Len(res[p].val) : C4_Returned(p, res[p].val[i])

(* A Get returned expired for a request that is persisted as pending.      *)
C4_Witness ==
    \E p \in Procs :
        /\ pc[p] = "done" /\ call[p].op = "Get" /\ res[p].err = "none"
        /\ res[p].val.Status = "expired"
        /\ Persisted(res[p].val.ID).status = "pending"

(* Text without its leading and trailing white space.                      *)
Trimmed(s) ==
    LET idx == {i \in 1..Len(s) :
                    s[i] \notin {" ", "\t", "\n", "\f", "\r"} \cup UnicodeSpaces} IN
    IF idx = {} THEN <<>>
    ELSE SubSeq(s, CHOOSE i \in idx : \A k \in idx : i <= k,
                   CHOOSE i \in idx : \A k \in idx : i >= k)

(* C5: a successful Create persists and returns a pending request without  *)
(* decision fields, with expires_at = created_at + TTL for a positive TTL  *)
(* and created_at + 15 minutes otherwise, so expires_at is later than      *)
(* created_at.                                                             *)
C5_CreatePending ==
    \A p \in Procs :
        (Finished(p, "Create") /\ res[p].err = "none")
        => LET r == res[p].val
               ttl == call[p].input.TTL
           IN /\ r.Status = "pending"
              /\ r.DecisionAt = <<>> /\ r.DecidedBy = <<>> /\ r.DecisionRationale = <<>>
              /\ r.ExpiresAt = r.CreatedAt + (IF ttl > 0 THEN ttl ELSE DefaultTTL)
              /\ r.ExpiresAt > r.CreatedAt
              /\ HasPersisted(r.ID)
              /\ LET j == Persisted(r.ID)
                 IN /\ j.status = "pending"
                    /\ DOMAIN j \cap {"decision_at", "decided_by", "decision_rationale"} = {}
                    /\ j.created_at = r.CreatedAt
                    /\ j.expires_at = r.ExpiresAt

(* A Create with a TTL of zero returned a request that expires 15 minutes  *)
(* after its creation.                                                     *)
C5_Witness ==
    \E p \in Procs :
        /\ Finished(p, "Create") /\ res[p].err = "none"
        /\ call[p].input.TTL = 0
        /\ res[p].val.ExpiresAt = res[p].val.CreatedAt + 900

(* C6: Create fails with a validation error exactly when the command is    *)
(* empty after trimming; such a Create takes no lock and leaves the        *)
(* persisted document unchanged.                                           *)
C6_CreateValidation ==
    [][\A p \in Procs :
          (pc[p] = "idle" /\ call'[p].op = "Create")
          => IF Trimmed(call'[p].input.Command) = <<>>
             THEN /\ pc'[p] = "done" /\ res'[p].err = "validation"
                  /\ holders' = holders /\ file' = file
             ELSE /\ pc'[p] = "lock" /\ res'[p].err # "validation"]_vars
    /\ [](\A p \in Procs :
            Finished(p, "Create")
            => (res[p].err = "validation" <=> Trimmed(call[p].input.Command) = <<>>))

(* A Create with a command of white space only failed on a store that      *)
(* already has a document.                                                 *)
C6_Witness ==
    \E p \in Procs :
        /\ pc[p] = "done" /\ call[p].op = "Create"
        /\ res[p].err = "validation"
        /\ call[p].input.Command # <<>>
        /\ file.exists

(* C7: Get of the id a Create returned, with nothing but Get calls after   *)
(* the Create, returns the request Create returned in every field except   *)
(* the status, which is pending when the read time is not past expires_at  *)
(* and expired otherwise.                                                  *)
C7_CreateThenGet ==
    \A p \in Procs :
        (/\ pc[p] = "done" /\ call[p].op = "Get"
         /\ lastCreated # NoRequest
         /\ call[p].id = lastCreated.ID)
        => /\ res[p].err = "none"
           /\ res[p].val =
                [lastCreated EXCEPT !.Status =
                    IF now[p] > lastCreated.ExpiresAt THEN "expired" ELSE "pending"]

(* A Get right after a Create returned the created request, run id         *)
(* included, as expired.                                                   *)
C7_Witness ==
    \E p \in Procs :
        /\ pc[p] = "done" /\ call[p].op = "Get"
        /\ lastCreated # NoRequest
        /\ call[p].id = lastCreated.ID
        /\ lastCreated.RunID # <<>>
        /\ res[p].err = "none"
        /\ res[p].val.Status = "expired"

(* C8: a successful Decide on a pending request that has not expired       *)
(* persists and returns the decision as status, the trimmed approver or    *)
(* "operator" as decided_by, the trimmed rationale and a decision time;    *)
(* Decide on an id that is not in the store returns not-found.             *)
C8_DecideRecords ==
    [][\A p \in Procs :
          (pc[p] = "fn" /\ call[p].op = "Decide" /\ pc'[p] = "unlock")
          => LET input == call[p].input
                 r == res'[p].val
             IN /\ ~HasPersisted(input.ID) => res'[p].err = "not_found"
                /\ (/\ HasPersisted(input.ID)
                    /\ Persisted(input.ID).status = "pending"
                    /\ now[p] <= Persisted(input.ID).expires_at)
                   => /\ res'[p].err = "none"
                      /\ r.ID = input.ID
                      /\ r.Status = input.Decision
                      /\ r.DecidedBy = IF Trimmed(input.Approver) = <<>>
                                       THEN <<"operator">>
                                       ELSE Trimmed(input.Approver)
                      /\ r.DecisionRationale = Trimmed(input.Rationale)
                      /\ r.DecisionAt # <<>>
                      /\ LET j == PersistedIn(file', input.ID)
                         IN /\ j.status = r.Status
                            /\ j.decided_by = r.DecidedBy
                            /\ j.decision_at = r.DecisionAt
                            /\ Field(j, "decision_rationale", <<>>) = r.DecisionRationale]_vars

(* A Decide with a blank approver was recorded as decided by "operator".   *)
C8_Witness ==
    \E p \in Procs :
        /\ Finished(p, "Decide") /\ res[p].err = "none"
        /\ Trimmed(call[p].input.Approver) = <<>>
        /\ Persisted(call[p].input.ID).decided_by = <<"operator">>
        /\ Persisted(call[p].input.ID).status = "denied"

(* C9: MarkExecuted succeeds exactly when the status after the lazy expiry *)
(* is approved or pending; it then sets executed and replaces run_id only  *)
(* for a non-blank runID.  For denied, expired and executed it returns a   *)
(* conflict, for an unknown id not-found, and persists nothing.            *)
C9_MarkExecuted ==
    [][\A p \in Procs :
          (pc[p] = "fn" /\ call[p].op = "MarkExecuted" /\ pc'[p] = "unlock")
          => LET id == call[p].id
                 runID == call[p].runID
             IN IF ~HasPersisted(id)
                THEN res'[p].err = "not_found" /\ file' = file
                ELSE LET j == Persisted(id) IN
                     IF EffectiveStatus(j, now[p]) \in {"approved", "pending"}
                     THEN /\ res'[p].err = "none"
                          /\ res'[p].val.ID = id
                          /\ res'[p].val.Status = "executed"
                          /\ res'[p].val.RunID = IF Trimmed(runID) # <<>>
                                                 THEN runID
                                                 ELSE Field(j, "run_id", <<>>)
                          /\ PersistedIn(file', id).status = "executed"
                          /\ Field(PersistedIn(file', id), "run_id", <<>>) = res'[p].val.RunID
                     ELSE res'[p].err = "conflict" /\ file' = file]_vars

(* A pending request was marked executed with a blank runID and kept the   *)
(* run id it was created with.                                             *)
C9_Witness ==
    \E p \in Procs :
        /\ Finished(p, "MarkExecuted") /\ res[p].err = "none"
        /\ call[p].runID = <<"\r", "\n">>
        /\ Persisted(call[p].id).status = "executed"
        /\ "decision_at" \notin DOMAIN Persisted(call[p].id)
        /\ Field(Persisted(call[p].id), "run_id", <<>>) = <<"run-1">>

(* The status a loaded request has after the expiry pass at time t.        *)
StatusAt(r, t) ==
    IF r.Status = "pending" /\ t > r.ExpiresAt THEN "expired" ELSE r.Status

SnapIndex(p, id) ==
    CHOOSE i \in 1..Len(sf[p].Requests) : sf[p].Requests[i].ID = id

Listed(p) == pc[p] = "done" /\ call[p].op = "List" /\ res[p].err = "none"

(* List is ordered newest first, ties in stored order.                     *)
C10_Ordered(p) ==
    LET r == res[p].val IN
    \A i, k \in 1..Len(r) :
        i < k => \/ r[i].CreatedAt > r[k].CreatedAt
                 \/ /\ r[i].CreatedAt = r[k].CreatedAt
                    /\ SnapIndex(p, r[i].ID) < SnapIndex(p, r[k].ID)

(* List returns exactly the loaded requests whose status after the expiry  *)
(* pass matches the filter, each once.                                     *)
C10_Filtered(p) ==
    LET r == res[p].val
        snap == sf[p].Requests
        f == call[p].filter
        keep == {i \in 1..Len(snap) : f = "" \/ StatusAt(snap[i], now[p]) = f}
    IN /\ Len(r) = Cardinality(keep)
       /\ \A i \in keep :
            \E k \in 1..Len(r) :
                r[k] = [snap[i] EXCEPT !.Status = StatusAt(snap[i], now[p])]

(* No pending request of the loaded document expires between the read     *)
(* times of the two callers.                                               *)
C10_SameExpiry(p, q) ==
    \A i \in 1..Len(sf[p].Requests) :
        sf[p].Requests[i].Status = "pending"
        => (now[p] > sf[p].Requests[i].ExpiresAt <=> now[q] > sf[p].Requests[i].ExpiresAt)

(* C10 as stated: List is ordered by created_at descending with ties in    *)
(* stored order, a filter selects exactly the requests with that status    *)
(* after the lazy expiry, and two List calls with the same filter and no   *)
(* write in between return the same sequence.                              *)
C10_AsStated ==
    \A p \in Procs :
        Listed(p)
        => /\ C10_Ordered(p)
           /\ C10_Filtered(p)
           /\ \A q \in Procs :
                (Listed(q) /\ call[q].filter = call[p].filter /\ sf[q] = sf[p])
                => res[q] = res[p]

(* C10, amended: as stated, but two List calls with the same filter and no *)
(* write in between return the same sequence when no pending request's     *)
(* expires_at lies between their read times.                               *)
C10_ListOrderedFiltered ==
    \A p \in Procs :
        Listed(p)
        => /\ C10_Ordered(p)
           /\ C10_Filtered(p)
           /\ \A q \in Procs :
                (/\ Listed(q) /\ call[q].filter = call[p].filter /\ sf[q] = sf[p]
                 /\ C10_SameExpiry(p, q))
                => res[q] = res[p]

(* Two callers listed the pending requests of the same document at         *)
(* different times and both got the one request it holds.                  *)
C10_Witness ==
    \E p, q \in Procs :
        /\ p # q /\ Listed(p) /\ Listed(q)
        /\ call[p].filter = "pending" /\ call[q].filter = "pending"
        /\ sf[p] = sf[q]
        /\ now[p] < now[q]
        /\ Len(res[p].val) = 1
        /\ res[q] = res[p]

(* ---------------------------- advisory lock ---------------------------- *)

(* An acquirer holds the lock of a path from the return of flockAcquire to *)
(* the call of its cleanup.                                                *)
Holds(p, path) == lkpc[p] = "held" /\ lkpath[p] = path

MutualExclusion ==
    \A p, q \in LockProcs, path \in LockPaths :
        Holds(p, path) /\ Holds(q, path) => p = q

(* C11 as stated: on every platform, no two acquirers hold the lock of the *)
(* same path at once.                                                      *)
C11_AsStated == MutualExclusion

(* C11: built for a platform other than Windows, no two acquirers hold the *)
(* lock of the same path at once, and an acquirer gets the lock of a path  *)
(* only in a step from a state where nobody holds it.                      *)
C11_MutualExclusion ==
    /\ [](goos # "windows" => MutualExclusion)
    /\ [][goos # "windows" =>
            \A q \in LockProcs, path \in LockPaths :
                ~Holds(q, path) /\ Holds(q, path)' =>
                    \A p \in LockProcs : ~Holds(p, path)]_vars

(* One acquirer holds a path while another is blocked in flock on it.      *)
C11_Witness ==
    /\ goos # "windows"
    /\ \E p, q \in LockProcs, path \in LockPaths :
        /\ p # q
        /\ Holds(p, path)
        /\ lkpc[q] = "opened" /\ lkpath[q] = path

(* ---------------------------- redaction ------------------------------- *)

(* C16: RedactString applied to "Authorization: Bearer <token>" returns a  *)
(* string that contains "Bearer [REDACTED]" and does not contain <token>.  *)
C16_BearerRedacted ==
    \A token \in Tokens :
        redactIn = AuthorizationBearer \o token /\ redactOut # NotRedacted =>
            /\ Contains(redactOut, BearerRedacted)
            /\ ~Contains(redactOut, token)

(* ---------------------------- run log --------------------------------- *)

(* The caller's Append call has run up to its deferred unlock.             *)
Appended(p) == rlcall[p].op = "Append" /\ rlpc[p] = "unlock"

BlankEvent(evt) == TrimSpace(evt.RunID) = <<>> \/ TrimSpace(evt.EventType) = <<>>

LastLine == FileLines(rlfile)[Len(FileLines(rlfile))]

(* The line Append wrote is the caller's event with the two defaults: the  *)
(* time read by the call for a zero timestamp, a generated id for an empty *)
(* event id.                                                               *)
C12_Written(p) ==
    LET evt == rlcall[p].evt
        json == LastLine.json
    IN /\ rlres[p].err = "none"
       /\ rlfile.lines # <<>>
       /\ LastLine.ok
       /\ json.run_id = evt.RunID
       /\ json.event_type = evt.EventType
       /\ json.timestamp = IF IsZero(evt.Timestamp) THEN clock ELSE evt.Timestamp
       /\ json.event_id = IF evt.EventID = <<>> THEN EventID(rlnextId - 1) ELSE evt.EventID
       /\ json.event_id # <<>>

(* A call with a blank run id or event type returns an error at once and   *)
(* leaves the file alone.                                                  *)
C12_Rejected ==
    \A p \in Procs :
        rlpc[p] = "idle" /\ rlcall'[p].op = "Append" /\ BlankEvent(rlcall'[p].evt) =>
            /\ rlpc'[p] = "done"
            /\ rlres'[p].err # "none"
            /\ rlfile' = rlfile

(* C12 as stated: Append returns an error and writes no line when the run  *)
(* id or the event type is blank, and otherwise writes the event with its  *)
(* timestamp and event id defaulted or kept.                               *)
C12_AsStated ==
    \A p \in Procs :
        /\ rlcall[p].op = "Append" /\ rlpc[p] = "done" /\ BlankEvent(rlcall[p].evt) =>
                rlres[p].err # "none"
        /\ Appended(p) => C12_Written(p)

(* C12: Append returns an error and writes no line when the run id or the  *)
(* event type is blank; otherwise, unless json.Marshal rejects the event,  *)
(* it writes the event with its timestamp defaulted to the current time    *)
(* when zero and an event id generated when none was given, keeping a      *)
(* caller-supplied timestamp and event id unchanged; when json.Marshal     *)
(* rejects the event, Append returns its error and writes no line.         *)
C12_AppendValidation ==
    /\ [][C12_Rejected]_vars
    /\ [][\A p \in Procs :
            (rlpc[p] = "write" /\ rlpc'[p] # "write"
                /\ MarshalFails(GoMap(rlevt[p].Payload))) =>
                    /\ rlres'[p] = RlFail("json: unsupported type")
                    /\ rlfile'.lines = rlfile.lines]_vars
    /\ [](\A p \in Procs :
            (rlcall[p].op = "Append" /\ rlpc[p] = "done"
                /\ MarshalFails(GoMap(rlcall[p].evt.Payload))) =>
                    rlres[p].err # "none")
    /\ [](\A p \in Procs :
            /\ rlcall[p].op = "Append" /\ rlpc[p] = "done" /\ BlankEvent(rlcall[p].evt) =>
                    rlres[p].err # "none"
            /\ Appended(p) /\ ~MarshalFails(GoMap(rlcall[p].evt.Payload)) =>
                    C12_Written(p))

(* An event without timestamp and id has been written after one with both. *)
C12_Witness ==
    \E p \in Procs :
        /\ Appended(p)
        /\ rlcall[p].evt.EventID = <<>>
        /\ IsZero(rlcall[p].evt.Timestamp)
        /\ Len(FileLines(rlfile)) = 2
        /\ FileLines(rlfile)[1].json.event_id = <<"evt-given">>
        /\ C12_Written(p)

(* The bytes of a are the first bytes of b: the texts of a are those of b,  *)
(* but that a may end in the middle of a text where b has all of it.       *)
IsPrefix(a, b) ==
    /\ Len(a) <= Len(b)
    /\ \A i \in 1..Len(a) :
            \/ a[i] = b[i]
            \/ i = Len(a) /\ a[i].part = "head" /\ b[i] = Line(a[i].json, a[i].frac)

OkLines(f) == SelectSeq(FileLines(f), LAMBDA line : line.ok)

(* The caller's Append has returned nil, or is about to.                   *)
AppendSucceeded(p) ==
    rlcall[p].op = "Append" /\ rlpc[p] \in {"unlock", "done"} /\ rlres[p].err = "none"

(* C13: under every interleaving of Append and ReadRun calls the content   *)
(* of the file before a step is a prefix of the content after it; the file *)
(* holds one complete line for each Append that has written, and nothing   *)
(* else but the beginning of the line an Append is in the middle of        *)
(* writing; the line of every Append that succeeded is in the file.        *)
C13_AppendOnly ==
    /\ [][IsPrefix(rlfile.lines, rlfile'.lines)]_vars
    /\ [](LET lines == FileLines(rlfile)
          IN /\ Len(OkLines(rlfile)) = rlnWritten
             /\ \A i \in 1..Len(lines) :
                    ~lines[i].ok => i = Len(lines) /\ \E p \in Procs : rlpc[p] = "rest"
             /\ \A p \in Procs :
                    AppendSucceeded(p) =>
                        \E i \in 1..Len(lines) :
                            lines[i].ok /\ lines[i].json = MarshalEvent(rlevt[p]))

(* One caller is between the two parts of its line while the other waits   *)
(* for the lock with an event of its own, behind a line already written.   *)
C13_Witness ==
    \E p, q \in Procs :
        /\ rlpc[p] = "rest"
        /\ rlpc[q] = "lock" /\ rlcall[q].op = "Append"
        /\ rlnWritten = 1

(* The caller's ReadRun has scanned the file.                              *)
ReadDone(p) == rlcall[p].op = "ReadRun" /\ rlpc[p] = "unlock"

(* The lines of the file that hold a parseable event of the run.           *)
LinesOfRun(runID) ==
    {i \in 1..Len(FileLines(rlfile)) :
        FileLines(rlfile)[i].ok /\ Field(FileLines(rlfile)[i].json, "run_id", <<>>) = runID}

(* events are the events of the lines at, in this order; the lines are in  *)
(* the order of their timestamps, and of their places in the file where    *)
(* the timestamps are equal.                                               *)
C14_InOrder(events, at) ==
    LET lines == FileLines(rlfile)
    IN /\ \A k \in 1..Len(events) :
            /\ events[k].EventID = lines[at[k]].json.event_id
            /\ events[k].EventType = lines[at[k]].json.event_type
            /\ events[k].Timestamp = lines[at[k]].json.timestamp
       /\ \A k, l \in 1..Len(events) :
            k < l =>
                \/ lines[at[k]].json.timestamp < lines[at[l]].json.timestamp
                \/ /\ lines[at[k]].json.timestamp = lines[at[l]].json.timestamp
                   /\ at[k] < at[l]

(* C14: ReadRun(r) returns exactly the parseable events in the file whose  *)
(* run id equals r, in non-decreasing timestamp order, events of equal     *)
(* timestamp in append order.                                              *)
C14_ReadRunSorted ==
    \A p \in Procs :
        ReadDone(p) =>
            /\ rlres[p].err = "none"
            /\ Len(rlres[p].events) = Cardinality(LinesOfRun(rlcall[p].runID))
            /\ \E at \in [1..Len(rlres[p].events) -> LinesOfRun(rlcall[p].runID)] :
                    /\ \A k, l \in DOMAIN at : k # l => at[k] # at[l]
                    /\ C14_InOrder(rlres[p].events, at)

(* The strings of a JSON value: its own text, the elements of an array,   *)
(* the values of an object, at any depth.                                  *)
RECURSIVE JSONStrings(_)
JSONStrings(y) ==
    CASE y.j = "string" -> IF y.times = 1 THEN {y.v} ELSE {}
      [] y.j = "array" -> UNION {JSONStrings(y.v[i]) : i \in DOMAIN y.v}
      [] y.j = "object" -> UNION {JSONStrings(y.v[k]) : k \in DOMAIN y.v}
      [] OTHER -> {}

(* The payload of the line the caller's Append wrote.                      *)
PersistedPayload == Field(LastLine.json, "payload", [j |-> "null"])

(* The payloads persisted for the payloads that hold the secret.           *)
PersistedWith(secret) ==
    {MarshalValue(GoMap(RedactPayload(payload))) : payload \in PayloadsWith(secret)}

(* C15: the line Append persists never holds a secret given in the         *)
(* payload, in a string value, in an element of a string sequence or in a  *)
(* nested mapping; events that differ only in the secret give the same     *)
(* persisted payload.                                                      *)
C15_PayloadRedacted ==
    \A p \in Procs, secret \in Secrets :
        AppendSucceeded(p) /\ rlcall[p].evt.Payload \in PayloadsWith(secret) =>
            /\ \A text \in JSONStrings(PersistedPayload) : ~Contains(text, secret)
            /\ \A other \in Secrets : PersistedPayload \in PersistedWith(other)

(* ---------------------------- policy: classification ----------------- *)

(* The two forms of the classified command, and the tiers each matches.    *)
Normalized == normalizeCommand(classIn.command, classIn.args)
Unprefixed == TrimSpace(TrimPrefix(Normalized, GtPrefix))

InClass3 ==
    \E form \in {Normalized, Unprefixed} :
        matchesPrefix(form, class3Prefixes) \/ matchesRegex(form, class3Patterns)
InClass2 ==
    \E form \in {Normalized, Unprefixed} :
        matchesPrefix(form, class2Prefixes) \/ matchesRegex(form, class2Patterns)
InClass0 == \E form \in {Normalized, Unprefixed} : matchesPrefix(form, class0Prefixes)
InClass1 == \E form \in {Normalized, Unprefixed} : matchesPrefix(form, class1Prefixes)

Classified == classOut # NotClassified

TierPrecedence ==
    /\ InClass3 => classOut.class = Class3Critical
    /\ InClass2 /\ ~InClass3 => classOut.class = Class2Sensitive
    /\ InClass0 /\ ~InClass3 /\ ~InClass2 => classOut.class = Class0Safe

(* C17 as stated: a class3 match gives class3_critical whatever else       *)
(* matches, a class2 match wins over class0 and class1, and a command      *)
(* that matches nothing is class1_controlled_write.                        *)
C17_AsStated ==
    Classified =>
        /\ TierPrecedence
        /\ ~InClass3 /\ ~InClass2 /\ ~InClass0 /\ ~InClass1 =>
                classOut.class = Class1ControlledWrite

(* C17: the tier precedence holds, and a command that is not empty and     *)
(* matches nothing is class1_controlled_write; the empty command matches   *)
(* nothing and is class3_critical.                                         *)
C17_TierPrecedence ==
    Classified =>
        /\ TierPrecedence
        /\ ~InClass3 /\ ~InClass2 /\ ~InClass0 /\ Normalized # <<>> =>
                classOut.class = Class1ControlledWrite
        /\ Normalized = <<>> => classOut.class = Class3Critical

C17_Witness ==
    /\ Classified
    /\ InClass3 /\ InClass0 /\ ~HasPrefix(Normalized, GtPrefix)
    /\ classOut.class = Class3Critical

(* ---------------------------- policy: evaluation --------------------- *)

(* Evaluate has returned; the rules of the Evaluator's document, what      *)
(* ClassifyCommand says of the request, and the time rules are held to.    *)
Evaluated == polpc = "done"

EvalRules == IF evaluator.doc = Nil THEN <<>> ELSE evaluator.doc[1].Rules

EvalClassified == ClassifyCommand(evalReq.Command, evalReq.Args)

EvalNow == IF evalReq.Timestamp = ZeroTime THEN clock ELSE evalReq.Timestamp

(* The decision the spec fixes for each class.                             *)
BaseDecision ==
    [class \in {Class0Safe, Class1ControlledWrite, Class2Sensitive, Class3Critical} |->
        CASE class = Class0Safe -> "allow"
          [] class = Class1ControlledWrite -> "allow_with_justification"
          [] class = Class2Sensitive -> "require_approval"
          [] class = Class3Critical -> "deny"]

(* C18: with a document without rules, also a nil one and one that failed  *)
(* to load, Evaluate returns the decision fixed by the class, the          *)
(* classifier's reason and an empty rule id.                               *)
C18_NoRules ==
    Evaluated /\ EvalRules = <<>> =>
        /\ evalRes.Class = EvalClassified.class
        /\ evalRes.Decision = BaseDecision[evalRes.Class]
        /\ evalRes.Reason = EvalClassified.reason
        /\ evalRes.RuleID = ""

C18_Witness ==
    /\ Evaluated
    /\ evalFrom.call = "LoadOrDefault" /\ evalFrom.file = "malformed"
    /\ evalRes.Class = Class1ControlledWrite
    /\ evalRes.Decision = DecisionAllowWithJustification

(* The constraints of a rule's match, each on its own: one that is empty   *)
(* holds of every request.                                                 *)
ClassesHold(match) ==
    match.Classes = <<>> \/ EvalClassified.class \in Range(match.Classes)
AgentsHold(match) ==
    match.Agents = <<>> \/ matchesPatternList(match.Agents, evalReq.Agent)
ReposHold(match) ==
    match.Repos = <<>> \/ matchesPatternList(match.Repos, evalReq.Repo)
PrefixesHold(match) ==
    \/ match.CommandPrefixes = <<>>
    \/ \E prefix \in Range(match.CommandPrefixes) :
            /\ TrimSpace(prefix) # <<>>
            /\ HasPrefix(normalizeCommand(evalReq.Command, evalReq.Args),
                         ToLower(TrimSpace(prefix)))
RegexHolds(match) ==
    \/ match.CommandRegex = <<>>
    \/ /\ ~Compile(match.CommandRegex).err
       /\ MatchString(Compile(match.CommandRegex).re,
                      normalizeCommand(evalReq.Command, evalReq.Args))

AllHold(match) ==
    /\ ClassesHold(match) /\ AgentsHold(match) /\ ReposHold(match)
    /\ PrefixesHold(match) /\ RegexHolds(match)

(* C19: an enabled first rule of the document is the rule applied exactly  *)
(* when each of its non-empty constraints holds of the request; the rule   *)
(* for agent mayor and prefix "git push" is not applied to agent witness   *)
(* issuing "git push origin main".                                         *)
C19_Conjunctive ==
    Evaluated /\ EvalRules # <<>> =>
        /\ ruleEnabled(EvalRules[1], EvalNow) =>
                (evalRes.RuleID = EvalRules[1].ID <=> AllHold(EvalRules[1].Match))
        /\ \A i \in DOMAIN EvalRules :
                i > 1 /\ evalRes.RuleID = EvalRules[i].ID => AllHold(EvalRules[i].Match)
        /\ evalReq.Agent = Witness /\ evalReq.Command = GitPushOriginMain =>
                evalRes.RuleID # RuleMayorPush.ID

C19_Witness ==
    /\ Evaluated
    /\ EvalRules = <<RuleMayorPush>>
    /\ evalReq.Agent = Witness /\ evalReq.Command = GitPushOriginMain
    /\ evalRes.RuleID = ""

(* The rules that are enabled and match the request.                       *)
Applicable ==
    {i \in DOMAIN EvalRules :
        /\ ruleEnabled(EvalRules[i], EvalNow)
        /\ ruleMatches(EvalRules[i].Match, evalReq, EvalClassified.class)}

(* C20: with rules, the result is that of the first rule in document order *)
(* that is enabled and matches: its decision and id, its reason when it    *)
(* gives one and the classifier's otherwise, and the classifier's class.   *)
C20_FirstRuleWins ==
    Evaluated /\ EvalRules # <<>> =>
        LET classified == EvalClassified
            applicable ==
                {i \in DOMAIN EvalRules :
                    /\ ruleEnabled(EvalRules[i], EvalNow)
                    /\ ruleMatches(EvalRules[i].Match, evalReq, classified.class)}
        IN applicable # {} =>
            LET rule == EvalRules[CHOOSE i \in applicable : \A j \in applicable : i <= j]
            IN /\ evalRes.Decision = rule.Decision
               /\ evalRes.RuleID = rule.ID
               /\ evalRes.Reason = IF rule.Reason # "" THEN rule.Reason ELSE classified.reason
               /\ evalRes.Class = classified.class

C20_Witness ==
    /\ Evaluated
    /\ EvalRules = <<RuleMayorPush, RuleAll>>
    /\ Applicable = {1, 2}
    /\ evalRes.RuleID = RuleMayorPush.ID
    /\ evalRes.Decision = DecisionAllowWithJustification
    /\ evalRes.Reason = "sensitive command requires approval"

(* The default decision of the evaluator's document, "" when it has none. *)
EvalDefault ==
    IF evaluator.doc = Nil THEN "" ELSE evaluator.doc[1].DefaultDecision

(* The result the classifier alone gives.                                  *)
EvalBase ==
    [Decision |-> BaseDecision[EvalClassified.class],
     Class |-> EvalClassified.class,
     Reason |-> EvalClassified.reason,
     RuleID |-> ""]

(* C21 as stated: when no enabled rule matches, also when the document has *)
(* no rules at all, a default decision of the document is the decision     *)
(* returned, with the classifier's class and an empty rule id; without a   *)
(* default decision the classifier's result is returned.                   *)
C21_AsStated ==
    Evaluated /\ Applicable = {} =>
        IF EvalDefault # ""
        THEN evalRes = [EvalBase EXCEPT !.Decision = EvalDefault]
        ELSE evalRes = EvalBase

(* C21: when the document has a rule and no enabled rule matches, a        *)
(* default decision of the document is the decision returned, with the     *)
(* classifier's class and reason and an empty rule id; without a default   *)
(* decision, and with a document without rules whatever its default        *)
(* decision, the classifier's result is returned.                          *)
C21_DefaultDecision ==
    Evaluated /\ Applicable = {} =>
        IF EvalDefault # "" /\ EvalRules # <<>>
        THEN evalRes = [EvalBase EXCEPT !.Decision = EvalDefault]
        ELSE evalRes = EvalBase

C21_Witness ==
    /\ Evaluated
    /\ EvalRules = <<RuleMayorPush>>
    /\ EvalDefault = DecisionDeny
    /\ evalReq.Agent = Witness /\ evalReq.Command = GitPushOriginMain
    /\ Applicable = {}
    /\ evalRes.Decision = DecisionDeny
    /\ evalRes.Class = Class2Sensitive
    /\ evalRes.RuleID = ""

(* C22: Evaluate returns a result for every request, one with a blank     *)
(* command and no args included: a class of the four, and a decision; and  *)
(* a blank command without args is class3_critical, whose decision by      *)
(* class is deny, the decision returned when no rule applies.              *)
C22_NeverFails ==
    /\ polpc = "ready" =>
            \A request \in EvalRequests, t \in Times :
                Evaluate(evaluator, request, t) \in
                    [Decision : STRING, Class : STRING, Reason : STRING, RuleID : STRING]
    /\ Evaluated =>
            /\ evalRes.Class \in {Class0Safe, Class1ControlledWrite,
                                  Class2Sensitive, Class3Critical}
            /\ evalRes.Decision \in {DecisionAllow, DecisionAllowWithJustification,
                                     DecisionRequireApproval, DecisionDeny}
            /\ TrimSpace(evalReq.Command) = <<>> /\ evalReq.Args = <<>> =>
                    /\ evalRes.Class = Class3Critical
                    /\ BaseDecision[evalRes.Class] = DecisionDeny
                    /\ EvalRules = <<>> =>
                            /\ evalRes.Decision = DecisionDeny
                            /\ evalRes.Reason = "empty command is denied"

C22_Witness ==
    /\ Evaluated
    /\ evalReq.Command = BlankCommand /\ evalReq.Args = <<>>
    /\ EvalRules = <<>>
    /\ evalRes.Class = Class3Critical
    /\ evalRes.Decision = DecisionDeny
    /\ evalRes.RuleID = ""

(* C23 as stated: on one Evaluator, two Evaluate calls with equal requests *)
(* return equal results, whenever they are made.                           *)
C23_AsStated ==
    \A a, b \in evalLog : a.req = b.req => a.res = b.res

(* C23: on one Evaluator, two Evaluate calls with equal requests return    *)
(* equal results whenever the requests carry a timestamp, whatever the     *)
(* wall clock and the calls between them; requests without a timestamp     *)
(* get equal results when the wall clock reads the same at both calls.     *)
C23_Pure ==
    \A a, b \in evalLog :
        a.req = b.req /\ (a.req.Timestamp # ZeroTime \/ a.at = b.at) => a.res = b.res

C23_Witness ==
    \E a, b \in evalLog :
        /\ a.req = b.req /\ a.req.Timestamp = 1 /\ a.at < b.at
        /\ a.res.RuleID = RuleUntil.ID /\ b.res = a.res
        /\ \E c \in evalLog : c.req # a.req /\ c.at = b.at /\ c.res.RuleID = ""

(* The callback of p's operation op runs and withLockedStore goes on to    *)
(* the unlock.                                                             *)
Mutates(p, op) == pc[p] = "fn" /\ call[p].op = op /\ pc'[p] = "unlock"

(* Another caller's Decide on the same request is in flight: waiting for   *)
(* the lock, or back with its result.                                      *)
DecidesToo(q, id, at) == call[q].op = "Decide" /\ call[q].input.ID = id /\ pc[q] \in at

(* C24: every Decide and MarkExecuted returns, and persists, what the      *)
(* operation makes of the document as it is persisted at that moment, so   *)
(* the calls take effect one after the other in the order of their writes, *)
(* however they overlap; and of two overlapping Decide calls on a request  *)
(* that is pending and not expired, the one to get the lock first succeeds *)
(* and the other gets a conflict.                                          *)
C24_Serializable ==
    [][\A p \in Procs :
          /\ Mutates(p, "Decide") =>
                LET out == DecideApply(loadUnlocked(file), call[p].input, now[p])
                IN /\ res'[p] = out.res
                   /\ file' = IF out.res.err = "none" THEN MarshalStore(out.sf) ELSE file
          /\ Mutates(p, "MarkExecuted") =>
                LET out == MarkExecutedApply(loadUnlocked(file), call[p].id,
                                             call[p].runID, now[p])
                IN /\ res'[p] = out.res
                   /\ file' = IF out.res.err = "none" THEN MarshalStore(out.sf) ELSE file
          /\ \A q \in Procs \ {p} :
                /\ (/\ Mutates(p, "Decide")
                    /\ DecidesToo(q, call[p].input.ID, {"lock"})
                    /\ HasPersisted(call[p].input.ID)
                    /\ Persisted(call[p].input.ID).status = "pending"
                    /\ now[p] <= Persisted(call[p].input.ID).expires_at)
                   => res'[p].err = "none"
                /\ (/\ Mutates(p, "Decide")
                    /\ DecidesToo(q, call[p].input.ID, {"unlock", "done"})
                    /\ res[q].err = "none")
                   => res'[p].err = "conflict" /\ file' = file]_vars

(* Two Decide calls on one request overlapped: the caller that started     *)
(* first, before the other read its clock, got the lock second; the other  *)
(* succeeded and it got a conflict, on a request that had not expired.     *)
C24_Witness ==
    \E p, q \in Procs :
        /\ p # q
        /\ pc[p] = "done" /\ call[p].op = "Decide"
        /\ DecidesToo(q, call[p].input.ID, {"done"})
        /\ res[p].err = "none" /\ res[q].err = "conflict"
        /\ now[q] < now[p]
        /\ now[p] <= Persisted(call[p].input.ID).expires_at

(* The request with the given id in the copy of the document p loaded.     *)
Loaded(p, id) == sf[p].Requests[SnapIndex(p, id)]

(* C25: a pending request whose expires_at is at or before the time of the *)
(* operation is expired for it: Get returns it as expired, Decide and      *)
(* MarkExecuted return a conflict.                                         *)
C25_ExpiredAtExpiry ==
    /\ [](\A p \in Procs :
            (/\ pc[p] = "done" /\ call[p].op = "Get" /\ res[p].err = "none"
             /\ Loaded(p, call[p].id).Status = "pending"
             /\ Loaded(p, call[p].id).ExpiresAt <= now[p])
            => res[p].val.Status = "expired")
    /\ [][\A p \in Procs :
            /\ (/\ Mutates(p, "Decide")
                /\ HasPersisted(call[p].input.ID)
                /\ Persisted(call[p].input.ID).status = "pending"
                /\ Persisted(call[p].input.ID).expires_at <= now[p])
               => res'[p].err = "conflict"
            /\ (/\ Mutates(p, "MarkExecuted")
                /\ HasPersisted(call[p].id)
                /\ Persisted(call[p].id).status = "pending"
                /\ Persisted(call[p].id).expires_at <= now[p])
               => res'[p].err = "conflict"]_vars

(* The fields of a persisted record that Create fixes, and the fields a    *)
(* decision writes.                                                        *)
FrozenKeys ==
    {"id", "command", "command_hash", "class", "requested_by", "repo",
     "policy_decision", "reason", "created_at", "expires_at"}

DecisionKeys == {"decided_by", "decision_rationale", "decision_at"}

SameOn(a, b, keys) ==
    \A k \in keys : (k \in DOMAIN a <=> k \in DOMAIN b) /\ (k \in DOMAIN a => a[k] = b[k])

(* The id the mutation p is running is about, <<>> for Create.               *)
TargetID(p) ==
    CASE call[p].op = "Decide" -> call[p].input.ID
      [] call[p].op = "MarkExecuted" -> call[p].id
      [] OTHER -> <<>>

(* C26: under every interleaving, a persisted request stays where it is    *)
(* and keeps id, command, command_hash, class, requested_by, repo,         *)
(* policy_decision, reason, created_at and expires_at; decided_by,         *)
(* decision_rationale and decision_at, once there, keep their values, and  *)
(* appear only with the successful Decide that takes the request from      *)
(* pending to approved or denied; and a mutation about another id leaves   *)
(* the request as it was, or only flips it from pending to expired.        *)
C26_Frame ==
    [][\A i \in 1..Len(file.requests) :
          /\ i <= Len(file'.requests)
          /\ LET a == file.requests[i]
                 b == file'.requests[i]
             IN /\ SameOn(a, b, FrozenKeys)
                /\ SameOn(a, b, DecisionKeys \cap DOMAIN a)
                /\ ~SameOn(a, b, DecisionKeys) =>
                        /\ a.status = "pending" /\ b.status \in {"approved", "denied"}
                        /\ DOMAIN a \cap DecisionKeys = {}
                        /\ \E p \in Procs :
                                /\ Mutates(p, "Decide") /\ TargetID(p) = a.id
                                /\ res'[p].err = "none"
                /\ \A p \in Procs :
                        (pc[p] = "fn" /\ pc'[p] = "unlock" /\ TargetID(p) # a.id) =>
                            \/ b = a
                            \/ a.status = "pending" /\ b = [a EXCEPT !.status = "expired"]]_vars

(* Two requests are persisted: the second was decided, and the write of    *)
(* that decision persisted the first, which had expired, as expired.       *)
C26_Witness ==
    /\ Len(file.requests) = 2
    /\ file.requests[1].status = "expired"
    /\ file.requests[2].status = "approved"
    /\ DecisionKeys \cap DOMAIN file.requests[1] = {}
    /\ {"decided_by", "decision_at"} \subseteq DOMAIN file.requests[2]

(* The call p made got past the validation of its arguments.               *)
ReachesStore(p) ==
    /\ call[p].op \in {"Create", "Get", "List", "Decide", "MarkExecuted"}
    /\ res[p].err # "validation"

(* The approval document is there and is not JSON.                         *)
NotJSON == file.exists /\ ~ValidJSON(file)

(* C28: while the approval document is there and is not JSON, no step      *)
(* changes it, and every Create, Get, List, Decide and MarkExecuted that   *)
(* gets to the store returns a storage error; while the document is        *)
(* missing, Get, Decide and MarkExecuted find nothing, List returns no     *)
(* request, and Create persists a document holding its request alone.      *)
C28_CorruptDocument ==
    /\ [][NotJSON => file' = file /\ tmpfile' = tmpfile]_vars
    /\ [](\A p \in Procs :
            pc[p] = "done" /\ ReachesStore(p) =>
                /\ NotJSON => res[p].err = "storage"
                /\ ~file.exists =>
                        CASE call[p].op = "List" -> res[p] = Ok(<<>>)
                          [] call[p].op = "Create" -> FALSE
                          [] OTHER -> res[p].err = "not_found")
    /\ [][\A p \in Procs :
            (~file.exists /\ Mutates(p, "Create")) =>
                /\ res'[p] = Ok(req[p])
                /\ file' = MarshalStore([Version |-> 1, Requests |-> <<req[p]>>])]_vars

(* A Decide and, before it, another call came back with a storage error    *)
(* from a document that is there, is not JSON and names the request.       *)
C28_Witness ==
    /\ NotJSON
    /\ nCalls >= 2
    /\ pc[Caller] = "done" /\ call[Caller].op = "Decide"
    /\ call[Caller].input.ID = RequestID(1)
    /\ res[Caller].err = "storage"

(* Caller p dies in this step.                                             *)
Crashes(p) == pc[p] # "crashed" /\ pc'[p] = "crashed"

(* The callers that have died.                                             *)
Dead == {p \in Procs : pc[p] = "crashed"}

(* C27 as stated: whenever a caller dies inside Create, Decide or           *)
(* MarkExecuted, the document it leaves is the one from before the         *)
(* operation or the one the operation writes, and at all times the         *)
(* document is missing or complete JSON; and once a caller has died, the   *)
(* other caller gets the lock, loads the document and gets no storage      *)
(* error.                                                                  *)
C27_AsStated ==
    /\ [][\A p \in Procs :
            Crashes(p) =>
                \/ file' = file
                \/ /\ pc[p] = "fn" /\ PendingWrite(p).ok
                   /\ file' = PendingWrite(p).doc]_vars
    /\ [](~NotJSON)
    /\ [](\A p, q \in Procs :
            (p # q /\ pc[p] = "crashed") =>
                /\ pc[q] = "lock" => LockAvailable(holders) /\ ~loadFails(file)
                /\ pc[q] \in {"unlock", "done"} => res[q].err # "storage")

(* C27: whenever a caller dies inside Create, Decide or MarkExecuted, the  *)
(* document it leaves is the one from before the operation or the one the  *)
(* operation writes, and at all times the document is missing or complete  *)
(* JSON; once a caller has died, the other caller waits for the lock only  *)
(* while a dead caller's lock has not been released, and when it goes on   *)
(* it holds the lock, has loaded the document and gets no storage error.   *)
C27_CrashSafe ==
    /\ [][\A p \in Procs :
            Crashes(p) =>
                \/ file' = file
                \/ /\ pc[p] = "fn" /\ PendingWrite(p).ok
                   /\ file' = PendingWrite(p).doc]_vars
    /\ [](~NotJSON)
    /\ [](\A p, q \in Procs :
            (p # q /\ pc[p] = "crashed") =>
                /\ pc[q] = "lock" => holders \subseteq Dead /\ ~loadFails(file)
                /\ pc[q] \in {"unlock", "done"} => res[q].err # "storage")
    /\ [][\A p, q \in Procs :
            (p # q /\ pc[p] = "crashed" /\ pc[q] = "lock" /\ pc'[q] # pc[q]) =>
                \/ pc'[q] = "crashed"
                \/ /\ holders \cap Dead = {}
                   /\ q \in holders'
                   /\ sf'[q] = loadUnlocked(file)]_vars

(* A caller died in Decide while the temporary file was half written: the  *)
(* request stayed pending, and the other caller then decided it.           *)
C27_Witness ==
    \E p, q \in Procs :
        /\ p # q
        /\ pc[p] = "crashed" /\ call[p].op = "Decide"
        /\ tmpfile # NoFile /\ ~ValidJSON(tmpfile)
        /\ pc[q] = "done" /\ call[q].op = "MarkExecuted"
        /\ call[q].id = call[p].input.ID
        /\ res[q].err = "none"
        /\ "decision_at" \notin DOMAIN Persisted(call[q].id)

(* C29: whatever lines the file holds, malformed, partial or over-long,    *)
(* ReadRun(r) returns no error and returns the event of every well-formed  *)
(* line of run r.                                                          *)
C29_NeverBlocked ==
    \A p \in Procs :
        ReadDone(p) =>
            /\ rlres[p].err = "none"
            /\ \A i \in LinesOfRun(rlcall[p].runID) :
                    \E k \in 1..Len(rlres[p].events) :
                        rlres[p].events[k].EventID = FileLines(rlfile)[i].json.event_id

(* The strings of a Go value: its own text, the elements of a slice, the   *)
(* values of a map, at any depth.                                          *)
RECURSIVE ValueStrings(_)
ValueStrings(x) ==
    CASE x.t = "string" -> IF x.times = 1 THEN {x.v} ELSE {}
      [] x.t \in {"[]string", "[]interface{}"} ->
            UNION {ValueStrings(x.v[i]) : i \in DOMAIN x.v}
      [] x.t = "map[string]interface{}" ->
            IF x.v = Nil THEN {}
            ELSE UNION {ValueStrings(x.v[1][k]) : k \in DOMAIN x.v[1]}
      [] OTHER -> {}

(* C30: no event ReadRun returns holds, in a string value of its payload,  *)
(* in an element of a sequence or in a nested mapping, a secret that the   *)
(* line in the file holds unredacted.                                      *)
C30_RedactedOnRead ==
    \A p \in Procs :
        ReadDone(p) /\ rlres[p].err = "none" =>
            \A k \in 1..Len(rlres[p].events), secret \in Secrets :
                \A text \in ValueStrings(GoMap(rlres[p].events[k].Payload)) :
                    ~Contains(text, secret)

(* The evaluation time of a logged call: the request's timestamp, or the   *)
(* wall clock as the call read it when the request carries none.           *)
EvalTime(entry) ==
    IF entry.req.Timestamp # ZeroTime THEN entry.req.Timestamp ELSE entry.at

(* The rule is switched off, or its until time is earlier than t.          *)
Skipped(rule, t) ==
    \/ rule.Enabled = <<FALSE>>
    \/ rule.Until # Nil /\ rule.Until[1] < t

(* The rules that are not skipped at the call's evaluation time and match  *)
(* its request.                                                            *)
Live(entry) ==
    {i \in DOMAIN EvalRules :
        /\ ~Skipped(EvalRules[i], EvalTime(entry))
        /\ ruleMatches(EvalRules[i].Match, entry.req,
                       ClassifyCommand(entry.req.Command, entry.req.Args).class)}

(* C31: no Evaluate call applies a rule that is switched off or whose      *)
(* until time is earlier than the evaluation time, which is the request's  *)
(* timestamp when it has one, whatever the wall clock reads; and the rules *)
(* after a skipped rule are still considered: the first rule that is not   *)
(* skipped and matches is the rule applied.                                *)
C31_SkippedRules ==
    \A entry \in evalLog :
        /\ \A i \in DOMAIN EvalRules :
                Skipped(EvalRules[i], EvalTime(entry)) =>
                    entry.res.RuleID # EvalRules[i].ID
        /\ Live(entry) # {} =>
                entry.res.RuleID =
                    EvalRules[CHOOSE i \in Live(entry) : \A j \in Live(entry) : i <= j].ID

C31_Witness ==
    /\ EvalRules = <<RuleOff, RuleUntil, RuleAll>>
    /\ \E a, b \in evalLog :
            /\ a.req.Timestamp = 1 /\ a.at > 1 /\ a.res.RuleID = RuleUntil.ID
            /\ b.req.Timestamp = 2 /\ b.res.RuleID = RuleAll.ID

(* The rules whose command regexp does not compile.                        *)
Malformed ==
    {i \in DOMAIN EvalRules :
        /\ EvalRules[i].Match.CommandRegex # <<>>
        /\ Compile(EvalRules[i].Match.CommandRegex).err}

(* The rules other than the malformed ones that are enabled and whose      *)
(* constraints all hold of the request.                                    *)
WellFormedApplicable ==
    {j \in DOMAIN EvalRules \ Malformed :
        ruleEnabled(EvalRules[j], EvalNow) /\ AllHold(EvalRules[j].Match)}

(* C32 as stated: with a rule whose command regexp does not compile in the *)
(* document, Evaluate returns for every request the result it returns for  *)
(* the document without that rule: that of the first of the other rules    *)
(* that is enabled and matches, and when there is none that of the default *)
(* decision if the document has one and has other rules, and of the class  *)
(* otherwise.                                                              *)
C32_AsStated ==
    Evaluated /\ Malformed # {} =>
        /\ \A i \in Malformed : evalRes.RuleID # EvalRules[i].ID
        /\ IF WellFormedApplicable # {}
           THEN LET rule == EvalRules[CHOOSE j \in WellFormedApplicable :
                                        \A k \in WellFormedApplicable : j <= k]
                IN evalRes =
                     [EvalBase EXCEPT !.Decision = rule.Decision, !.RuleID = rule.ID,
                                      !.Reason = IF rule.Reason # "" THEN rule.Reason ELSE @]
           ELSE evalRes =
                     [EvalBase EXCEPT
                        !.Decision = IF EvalDefault # "" /\ DOMAIN EvalRules # Malformed
                                     THEN EvalDefault ELSE @]

(* C32: with a rule whose command regexp does not compile in the document, *)
(* Evaluate returns a result in which that rule is not the rule applied,   *)
(* for every request; the result is that of the first of the other rules   *)
(* that is enabled and matches, before or after the malformed one, and     *)
(* when there is none, also when the document has no other rule, that of   *)
(* the default decision, or of the class when the document has no default  *)
(* decision.                                                               *)
C32_MalformedRegex ==
    Evaluated /\ Malformed # {} =>
        /\ \A i \in Malformed : evalRes.RuleID # EvalRules[i].ID
        /\ IF WellFormedApplicable # {}
           THEN LET rule == EvalRules[CHOOSE j \in WellFormedApplicable :
                                        \A k \in WellFormedApplicable : j <= k]
                IN evalRes =
                     [EvalBase EXCEPT !.Decision = rule.Decision, !.RuleID = rule.ID,
                                      !.Reason = IF rule.Reason # "" THEN rule.Reason ELSE @]
           ELSE evalRes =
                     [EvalBase EXCEPT !.Decision = IF EvalDefault # "" THEN EvalDefault ELSE @]

C32_Witness ==
    /\ Evaluated
    /\ EvalRules = <<RuleBadRegex, RuleAll>>
    /\ EvalDefault = DecisionDeny
    /\ evalReq.Command = GitPushOriginMain
    /\ evalRes.RuleID = RuleAll.ID
    /\ evalRes.Decision = DecisionRequireApproval

(* The command reads, with cat, less or more, a path that goes through a   *)
(* credential directory.                                                   *)
ReadsCredentials(command) ==
    /\ \E reader \in {<<"c", "a", "t", " ">>, <<"l", "e", "s", "s", " ">>, <<"m", "o", "r", "e", " ">>} : HasPrefix(command, reader)
    /\ \E dir \in {<<".", "s", "s", "h", "/">>, <<".", "a", "w", "s", "/">>, <<".", "g", "n", "u", "p", "g", "/">>} : Contains(command, dir)

(* C33: a command that reads a credential directory with cat, less or      *)
(* more, the forms ~/.ssh/..., ~/.aws/... and ~/.gnupg/... included, is    *)
(* classified class3_critical.                                             *)
C33_CredentialReads ==
    Classified /\ (ReadsCredentials(Normalized) \/ ReadsCredentials(Unprefixed)) =>
        classOut.class = Class3Critical

(* The request is persisted without a trace of a decision.                 *)
Undecided(j) ==
    /\ "decided_by" \notin DOMAIN j
    /\ "decision_at" \notin DOMAIN j
    /\ "decision_rationale" \notin DOMAIN j

(* C34: MarkExecuted takes a pending request straight to executed, and the *)
(* persisted request then carries no decided_by and no decision_at; a      *)
(* request persisted as denied stays denied in every step, and a           *)
(* MarkExecuted on it returns a conflict.                                  *)
C34_DirectExecution ==
    [][/\ \A i \in 1..Len(file.requests) :
             file.requests[i].status = "denied" =>
                /\ i <= Len(file'.requests)
                /\ file'.requests[i].id = file.requests[i].id
                /\ file'.requests[i].status = "denied"
       /\ \A p \in Procs :
             (pc[p] = "fn" /\ call[p].op = "MarkExecuted" /\ pc'[p] = "unlock"
                /\ HasPersisted(call[p].id))
             => LET j == Persisted(call[p].id)
                IN /\ j.status = "denied" => res'[p].err = "conflict"
                   /\ j.status = "pending" /\ ~(now[p] > j.expires_at) =>
                        /\ res'[p].err = "none"
                        /\ PersistedIn(file', call[p].id).status = "executed"
                        /\ Undecided(PersistedIn(file', call[p].id))]_vars

(* A request that nobody decided is persisted as executed, and the caller  *)
(* that executed it has its copy.                                          *)
C34_Witness ==
    \E p \in Procs :
        /\ Finished(p, "MarkExecuted") /\ res[p].err = "none"
        /\ res[p].val.DecidedBy = <<>> /\ res[p].val.DecisionAt = <<>>
        /\ Persisted(call[p].id).status = "executed"
        /\ Undecided(Persisted(call[p].id))

(* A Get of p has returned the request id as expired, and p still has the  *)
(* result in hand.                                                         *)
SawExpired(p, id) ==
    /\ pc[p] = "done" /\ call[p].op = "Get" /\ res[p].err = "none"
    /\ res[p].val.ID = id /\ res[p].val.Status = "expired"

(* C35: once a Get has returned a request as expired, a Decide or          *)
(* MarkExecuted of another caller that runs its callback afterwards gets a *)
(* conflict and persists nothing, and no Get that returns afterwards        *)
(* returns the request with another status than expired, however the calls *)
(* overlap.                                                                *)
C35_ExpiryStable ==
    [][\A p, q \in Procs :
          /\ (/\ pc[q] = "fn" /\ pc'[q] = "unlock"
              /\ call[q].op \in {"Decide", "MarkExecuted"}
              /\ SawExpired(p, TargetID(q)))
             => res'[q].err = "conflict" /\ file' = file
          /\ (/\ pc[q] = "read" /\ pc'[q] = "done" /\ call[q].op = "Get"
              /\ SawExpired(p, call[q].id) /\ res'[q].err = "none")
             => res'[q].val.Status = "expired"]_vars

(* p is in a Get or a List, or starts or leaves one with this step.        *)
Reading(p) ==
    \/ call[p].op \in {"Get", "List"}
    \/ call'[p].op \in {"Get", "List"}

(* C36: no step of a Get or a List, and no change the caller makes to the  *)
(* requests they returned, changes the persisted document; the status of a *)
(* persisted request goes from pending to expired only in the write of a   *)
(* successful Create, Decide or MarkExecuted.                              *)
C36_ReadsDoNotWrite ==
    [][/\ \A p \in Procs :
             Reading(p) /\ <<pc[p], call[p], res[p]>> # <<pc'[p], call'[p], res'[p]>>
                => file' = file /\ tmpfile' = tmpfile
       /\ (\E i \in 1..Len(file.requests) :
                /\ i <= Len(file'.requests)
                /\ file.requests[i].status = "pending"
                /\ file'.requests[i].status = "expired")
            => \E p \in Procs :
                    /\ pc[p] = "fn" /\ pc'[p] = "unlock"
                    /\ call[p].op \in {"Create", "Decide", "MarkExecuted"}
                    /\ res'[p].err = "none"]_vars

(* A Get returned a request as expired, the caller changed its copy, and   *)
(* the document still holds the request as it was, pending.                *)
C36_Witness ==
    \E p \in Procs :
        /\ pc[p] = "done" /\ call[p].op = "Get" /\ res[p].err = "none"
        /\ res[p].val.Command = <<"changed">>
        /\ Loaded(p, call[p].id).Status = "pending"
        /\ now[p] > Loaded(p, call[p].id).ExpiresAt
        /\ Persisted(call[p].id).status = "pending"
        /\ Persisted(call[p].id).command # <<"changed">>

(* The writes of the Append calls that returned success: each is one       *)
(* Write of the whole line of an event that Append gave its id.            *)
AppendedLines ==
    {i \in DOMAIN rlfile.lines :
        /\ rlfile.lines[i].part = "all"
        /\ rlfile.lines[i].json.event_id # <<"evt-old">>}

(* C37: a ReadRun returns, without an error, every event of its run that   *)
(* an Append wrote with success before, also when the file ended in a      *)
(* partial line without a newline when that Append ran.                    *)
C37_AppendedIsRead ==
    \A p \in Procs :
        ReadDone(p) =>
            \A i \in AppendedLines :
                rlfile.lines[i].json.run_id = rlcall[p].runID =>
                    /\ rlres[p].err = "none"
                    /\ \E k \in 1..Len(rlres[p].events) :
                            rlres[p].events[k].EventID = rlfile.lines[i].json.event_id

(* ---------------------------- C38 -------------------------------------- *)
(* The audit events of the handlers that are in the log, whole or only    *)
(* with their beginning.                                                   *)
AuditLines ==
    {i \in DOMAIN rlfile.lines :
        rlfile.lines[i].json.event_type \in
            {<<"approval_requested">>, <<"approval_decided">>}}

AuditID(i) == rlfile.lines[i].json.payload.v.approval_id.v

StoredIDs == {file.requests[k].id : k \in 1..Len(file.requests)}

StoredAs(text) ==
    file.requests[CHOOSE k \in 1..Len(file.requests) : file.requests[k].id = text]

(* C38: at every point, also after a crash inside a handler, every         *)
(* approval_requested or approval_decided event in the log, also one that  *)
(* a crash inside Write cut short, names an approval that is in the        *)
(* approval store, a decided one for approval_decided; the log is written  *)
(* only by a handler whose Create or Decide has returned without error, so *)
(* a failed one appends no event.                                          *)
C38_AuditFollowsStore ==
    /\ [](\A i \in AuditLines :
            /\ AuditID(i) \in StoredIDs
            /\ rlfile.lines[i].json.event_type = <<"approval_decided">> =>
                    /\ StoredAs(AuditID(i)).status \in {StatusApproved, StatusDenied}
                    /\ rlfile.lines[i].json.payload.v.status.v =
                            <<StoredAs(AuditID(i)).status>>)
    /\ [][rlfile' # rlfile =>
            /\ pc[Caller] = "done"
            /\ res[Caller].err = "none"
            /\ Persisted(res[Caller].val.ID).status = res[Caller].val.Status]_vars

(* The server died between the two writes of a Create: the log holds the   *)
(* request and the decision of the first approval, and the store holds a   *)
(* second approval that no event names.                                    *)
C38_Witness ==
    /\ hcrashed
    /\ \E i, j \in AuditLines :
            /\ rlfile.lines[i].json.event_type = <<"approval_requested">>
            /\ rlfile.lines[j].json.event_type = <<"approval_decided">>
    /\ \E text \in StoredIDs : \A i \in AuditLines : AuditID(i) # text

(* ---------------------------- C39 -------------------------------------- *)
(* C39: whatever the document, the decision Evaluate returns is one of     *)
(* allow, allow_with_justification, require_approval and deny, and the     *)
(* class is one of the four risk classes and is ClassifyCommand's, also    *)
(* when the matching rule or the default decision carries no decision or   *)
(* an unknown one.                                                         *)
C39_DecisionAndClass ==
    \A entry \in evalLog :
        /\ entry.res.Decision \in {DecisionAllow, DecisionAllowWithJustification,
                                    DecisionRequireApproval, DecisionDeny}
        /\ entry.res.Class \in {Class0Safe, Class1ControlledWrite,
                                 Class2Sensitive, Class3Critical}
        /\ entry.res.Class = ClassifyCommand(entry.req.Command, entry.req.Args).class

(* ---------------------------- C40 -------------------------------------- *)
(* The callers that are between the acquire and the release of an          *)
(* operation.                                                              *)
InsideStore == {p \in Procs : pc[p] \in {"fn", "unlock"}}
InsideLog == {p \in Procs : rlpc[p] \in {"write", "rest", "scan", "unlock"}}

Waiting(p) == pc[p] = "lock" \/ rlpc[p] = "lock"

Returned(p) ==
    /\ pc[p] \in {"idle", "done"}
    /\ rlpc[p] \in {"idle", "done"}
    /\ p \notin holders \cup rlholders

(* C40: every operation of the approval store and of the run log has       *)
(* released the lock when it returns, whatever it returns, so a lock is    *)
(* held only by a caller inside an operation; and when no holder dies and  *)
(* the acquire is fair, every caller that waits for a lock gets it and     *)
(* returns.                                                                *)
C40_LockReleased ==
    /\ [](holders \subseteq InsideStore /\ rlholders \subseteq InsideLog)
    /\ \A p \in Procs : Waiting(p) ~> Returned(p)

(* One caller has returned an error from inside the lock, and the other    *)
(* caller, which was waiting, holds the lock now.                          *)
C40_Witness ==
    \E p, q \in Procs :
        /\ pc[p] = "done"
        /\ res[p].err \in {"not_found", "conflict", "storage"}
        /\ holders = {q}
        /\ p # q

====
